---- MODULE Spec2Model ----
(***************************************************************************)
(* Verification model of the VOICE-FLOW media backend resource plane:      *)
(*   - the Gemini rate allocator (src/shared/gemini_allocator.py),         *)
(*   - the lease-holding retry loops of the TTS runtime and the OCR        *)
(*     fallback,                                                           *)
(*   - the quota reservation layer behind /tts/synthesize,                 *)
(*   - the dubbing job status machine and its stage contracts,             *)
(*   - the AI Ops guardian: admission, actions and approvals,              *)
(*   - the grouped multi-speaker synthesis of the Gemini runtime.          *)
(* Each subsystem has its own specification over the shared variables; a   *)
(* specification leaves the variables of the other subsystems unchanged.   *)
(***************************************************************************)
EXTENDS Integers, Sequences, FiniteSets, TLC

VARIABLES
    now,            \* int(time.time() * 1000), the allocator's clock
    lane_states,    \* GeminiRateAllocator._lane_states: (key, model) -> _LaneState
    key_states,     \* GeminiRateAllocator._key_states: key -> _KeyState
    next_key_index, \* GeminiRateAllocator._next_key_index
    leases,         \* every LaneLease issued so far, with its release count
    callers,        \* threads inside acquire_for_task / acquire_for_models
    acquire_result, \* the AcquireResult most recently returned to a caller
    calls,          \* number of acquire_for_task and release calls made so far
    loop_kind,      \* which lease-holding loop the process runs: "tts" or "ocr"
    loops,          \* per thread, the locals of its run of that loop
    speaker_key_affinity, \* _SPEAKER_KEY_AFFINITY of the runtime: speaker -> key, "" unbound
    today,          \* the UTC day _utc_now() falls on
    usage_monthly,  \* _INMEMORY_USAGE_MONTHLY / usage_monthly of the user
    usage_daily,    \* _INMEMORY_USAGE_DAILY / usage_daily of the user
    usage_events,   \* _INMEMORY_USAGE_EVENTS / usage_events of the user
    handlers,       \* threads serving /tts/synthesize
    quota_trace,    \* the last quota call and the state it found
    job,            \* DUBBING_JOBS[job_id]: status, stage, cancelRequested
    worker,         \* the job's worker thread: its position in _run_dubbing_job_v2
    ops_config,     \* VF_AI_OPS_MODE, VF_ADMIN_* and VF_AI_OPS_ENABLE_AUTOFIX_MINOR
    ops_now,        \* _ai_ops_now_ms()
    ops_state,      \* AI_OPS_STATE: maintenance, shedding, in-flight, last auto-fixes
    approvals,      \* AI_OPS_STATE["pendingApprovals"], in creation order
    executed,       \* the executions the last guardian call has made
    ops_trace,      \* the last guardian call and the state it found
    approval_order, \* AI_OPS_STATE["approvalOrder"]: ids, an id being the place in approvals
    scans,          \* per thread serving /ops/guardian/scan, its position and locals
    autofix_log,    \* the auto-executions the scans have made, with their times
    grp_input,      \* the arguments of _synthesize_studio_pair_groups
    grp_tasks,      \* per group, the state of its run_group task in the executor
    group_results,  \* group_results, in the order the futures complete
    grp_output,     \* what _synthesize_studio_pair_groups returns or raises
    stage6,         \* the locals of one run of the dubbing pipeline's stage 6 (TTS)
    pass_trace,     \* the last pass of acquire_for_models and the state it found
    http_requests,  \* per request, its position in _ai_ops_observer_middleware
    decisions,      \* the threads serving approval decisions, and the executions they made
    line_windows,   \* the line map and the windows of one grouped synthesis over windows
    penalties,      \* when each key and lane was last released with an auth or rate-limit error
    sig_trace       \* the last signal, snapshot or stray release and the state it found

allocVars == <<now, lane_states, key_states, next_key_index, leases, callers, acquire_result, calls>>
loopVars == <<loop_kind, loops, speaker_key_affinity>>
quotaVars == <<today, usage_monthly, usage_daily, usage_events, handlers, quota_trace>>
jobVars == <<job, worker>>
opsVars == <<ops_config, ops_now, ops_state, approvals, executed, ops_trace, approval_order>>
scanVars == <<scans, autofix_log>>
groupVars == <<grp_input, grp_tasks, group_results, grp_output>>
signalVars == <<sig_trace>>
ttsVars == <<stage6>>
rotVars == <<pass_trace, penalties>>
winVars == <<line_windows>>
reqVars == <<http_requests>>
decVars == <<decisions>>

vars == <<now, lane_states, key_states, next_key_index, leases, callers, acquire_result, calls,
          loop_kind, loops, speaker_key_affinity,
          today, usage_monthly, usage_daily, usage_events, handlers, quota_trace,
          job, worker,
          ops_config, ops_now, ops_state, approvals, executed, ops_trace, approval_order,
          scans, autofix_log,
          grp_input, grp_tasks, group_results, grp_output,
          sig_trace, stage6, line_windows, http_requests, decisions, pass_trace, penalties>>

(***************************************************************************)
(* Bounds of the allocator model                                           *)
(***************************************************************************)
StartMs == 1000          \* clock value at construction
MaxElapsedMs == 1000
TickMs == 500            \* largest single advance of the clock
WindowSeconds == 1       \* AllocatorConfig.window_seconds
DefaultWaitTimeoutMs == 1000 \* AllocatorConfig.default_wait_timeout_ms
AuthDisableMsArg == 1000 \* auth_disable_ms constructor argument
WaitSliceMsArg == 1000   \* wait_slice_ms constructor argument
ModelRpm == 1            \* ModelLimit.rpm of model m1; m2 allows one more
ModelTpm == 3            \* ModelLimit.tpm of every configured model
MaxReqTokens == 4        \* largest requested_tokens (and used_tokens) passed in
MaxCalls == 4            \* acquire_for_task and release calls in one run
MaxReleases == 2         \* times release() is called with the same lease

(***************************************************************************)
(* Program constants                                                       *)
(***************************************************************************)
MsPerSecond == 1000
MinAuthDisableMs == 1000
MinWaitSliceMs == 100
MinWaitTimeoutMs == 1000
MinSleepMs == 100

Max(a, b) == IF a >= b THEN a ELSE b
Min(a, b) == IF a <= b THEN a ELSE b

(***************************************************************************)
(* Configuration: key pool, models and routes                              *)
(***************************************************************************)
KeyPool == <<"k1", "k2">>
Keys == {KeyPool[i] : i \in 1..Len(KeyPool)}
Models == {"m1", "m2"}
Tasks == {"tts"}
Routes == [tts |-> <<"m1", "m2">>, ocr |-> <<"m2">>]
ErrorKinds == {"", "auth", "rate_limit", "timeout", "other"}

ModelLimit(model_id) ==
    [rpm |-> IF model_id = "m1" THEN ModelRpm ELSE ModelRpm + 1, tpm |-> ModelTpm]

window_ms == WindowSeconds * MsPerSecond
auth_disable_ms == Max(MinAuthDisableMs, AuthDisableMsArg)
wait_slice_ms == Max(MinWaitSliceMs, WaitSliceMsArg)

(***************************************************************************)
(* Allocator records                                                       *)
(***************************************************************************)
NewLaneState(t) ==
    [window_started_ms |-> t, requests |-> 0, tokens |-> 0,
     in_flight_requests |-> 0, in_flight_tokens |-> 0,
     temp_block_until_ms |-> 0, rate_limited_total |-> 0]

NewKeyState ==
    [auth_disabled_until_ms |-> 0, in_flight_total |-> 0,
     auth_failures_total |-> 0, rate_limited_total |-> 0]

NoLease == [id |-> 0]

\* _lane_state: the lane map with the lane created on first use
lane_state(ls, key, model_id, t) ==
    IF <<key, model_id>> \in DOMAIN ls
    THEN ls
    ELSE ls @@ (<<key, model_id>> :> NewLaneState(t))

\* _key_state: the key map with the key created on first use
key_state(ks, key) ==
    IF key \in DOMAIN ks THEN ks ELSE ks @@ (key :> NewKeyState)

reset_lane_if_window_rolled(lane, now_ms) ==
    IF lane.window_started_ms <= 0
    THEN [lane EXCEPT !.window_started_ms = now_ms]
    ELSE IF now_ms - lane.window_started_ms < window_ms
    THEN lane
    ELSE [lane EXCEPT !.window_started_ms = now_ms,
                      !.requests = 0,
                      !.tokens = 0,
                      !.in_flight_requests = 0,
                      !.in_flight_tokens = 0,
                      !.temp_block_until_ms = 0]

\* index of the first occurrence of key in the pool (0-based, as list.index)
RECURSIVE PoolIndexFrom(_, _, _)
PoolIndexFrom(pool, key, i) ==
    IF pool[i + 1] = key THEN i ELSE PoolIndexFrom(pool, key, i + 1)

SeqToSet(s) == {s[i] : i \in 1..Len(s)}

RECURSIVE RoundRobinFrom(_, _, _, _)
RoundRobinFrom(size, start, offset, skip) ==
    IF offset >= size THEN <<>>
    ELSE LET index == (start + offset) % size
         IN (IF index \in skip THEN <<>> ELSE <<index>>)
                \o RoundRobinFrom(size, start, offset + 1, skip)

\* variant whose round robin starts at the head of the pool
ordered_key_indexes_from_head(key_pool, preferred_key, blocked_keys, next_index) ==
    LET size == Len(key_pool)
    IN IF size = 0 THEN <<>>
       ELSE IF preferred_key # "" /\ preferred_key \in SeqToSet(key_pool)
                /\ preferred_key \notin blocked_keys
       THEN LET index == PoolIndexFrom(key_pool, preferred_key, 0)
            IN <<index>> \o RoundRobinFrom(size, 0, 0, {index})
       ELSE RoundRobinFrom(size, 0, 0, {})

\* _ordered_key_indexes: 0-based key indexes, preferred key first
ordered_key_indexes(key_pool, preferred_key, blocked_keys, next_index) ==
    LET size == Len(key_pool)
    IN IF size = 0 THEN <<>>
       ELSE IF preferred_key # "" /\ preferred_key \in SeqToSet(key_pool)
                /\ preferred_key \notin blocked_keys
       THEN LET index == PoolIndexFrom(key_pool, preferred_key, 0)
            IN <<index>> \o RoundRobinFrom(size, next_index % size, 0, {index})
       ELSE RoundRobinFrom(size, next_index % size, 0, {})

\* variant of _lane_ready_wait_ms that projects from the counted usage only,
\* leaving the reserved (in-flight) usage out
lane_ready_wait_ms_counted_only(model_id, ks, lane, requested_tokens, now_ms) ==
    IF ks.auth_disabled_until_ms > now_ms
    THEN Max(1, ks.auth_disabled_until_ms - now_ms)
    ELSE IF lane.temp_block_until_ms > now_ms
    THEN Max(1, lane.temp_block_until_ms - now_ms)
    ELSE LET limit == ModelLimit(model_id)
             window_reset_ms == Max(1, (lane.window_started_ms + window_ms) - now_ms)
             projected_rpm == lane.requests + 1
             projected_tpm == lane.tokens + requested_tokens
         IN IF projected_rpm > limit.rpm THEN window_reset_ms
            ELSE IF projected_tpm > limit.tpm THEN window_reset_ms
            ELSE 0

\* _lane_ready_wait_ms: 0 when the lane can take the request now, else the
\* wait until the key, the lane block or the window allows it
lane_ready_wait_ms(model_id, ks, lane, requested_tokens, now_ms) ==
    IF ks.auth_disabled_until_ms > now_ms
    THEN Max(1, ks.auth_disabled_until_ms - now_ms)
    ELSE IF lane.temp_block_until_ms > now_ms
    THEN Max(1, lane.temp_block_until_ms - now_ms)
    ELSE LET limit == ModelLimit(model_id)
             window_reset_ms == Max(1, (lane.window_started_ms + window_ms) - now_ms)
             projected_rpm == lane.requests + lane.in_flight_requests + 1
             projected_tpm == lane.tokens + lane.in_flight_tokens + requested_tokens
         IN IF projected_rpm > limit.rpm THEN window_reset_ms
            ELSE IF projected_tpm > limit.tpm THEN window_reset_ms
            ELSE 0


(***************************************************************************)
(* acquire_for_models: one pass of the candidate loops under the lock.     *)
(* The pass visits (model, key) pairs in route order and key order,        *)
(* creating and rolling every lane it inspects, and stops at the first     *)
(* ready lane.  nearest_wait_ms = 0 stands for None.                       *)
(***************************************************************************)
RECURSIVE acquire_pass(_, _, _, _, _, _, _, _, _, _, _)
acquire_pass(cands, key_pool, order, blocked, req, now_ms, mi, kp, ls, ks, nearest) ==
    IF mi > Len(cands)
    THEN [issued |-> FALSE, lease |-> NoLease, lane_states |-> ls,
          key_states |-> ks, nearest_wait_ms |-> nearest]
    ELSE IF kp > Len(order)
    THEN acquire_pass(cands, key_pool, order, blocked, req, now_ms, mi + 1, 1, ls, ks, nearest)
    ELSE LET model_id == cands[mi]
             key_index == order[kp]
             key == key_pool[key_index + 1]
         IN IF key \in blocked
            THEN acquire_pass(cands, key_pool, order, blocked, req, now_ms, mi, kp + 1, ls, ks, nearest)
            ELSE LET ks1 == key_state(ks, key)
                     ls1 == lane_state(ls, key, model_id, now_ms)
                     lane == reset_lane_if_window_rolled(ls1[<<key, model_id>>], now_ms)
                     ls2 == [ls1 EXCEPT ![<<key, model_id>>] = lane]
                     ready_wait_ms == lane_ready_wait_ms(model_id, ks1[key], lane, req, now_ms)
                 IN IF ready_wait_ms > 0
                    THEN acquire_pass(cands, key_pool, order, blocked, req, now_ms, mi, kp + 1,
                                      ls2, ks1,
                                      IF nearest = 0 THEN ready_wait_ms
                                      ELSE Min(nearest, ready_wait_ms))
                    ELSE [issued |-> TRUE,
                          lease |-> [key |-> key, model_id |-> model_id,
                                     key_index |-> key_index, model_index |-> mi - 1,
                                     reserved_tokens |-> req, reserved_at_ms |-> now_ms,
                                     window_started_ms |-> lane.window_started_ms],
                          lane_states |->
                              [ls2 EXCEPT ![<<key, model_id>>] =
                                  [lane EXCEPT !.in_flight_requests = @ + 1,
                                               !.in_flight_tokens = @ + req]],
                          key_states |->
                              [ks1 EXCEPT ![key].in_flight_total = @ + 1],
                          nearest_wait_ms |-> nearest]

\* safe_timeout_ms of acquire_for_models; wait_timeout_ms = 0 stands for None
safe_timeout_ms(wait_timeout_ms) ==
    Max(MinWaitTimeoutMs,
        IF wait_timeout_ms # 0 THEN Max(MinWaitTimeoutMs, wait_timeout_ms)
        ELSE DefaultWaitTimeoutMs)

\* variant of sleep_ms that is not capped by the remaining wait budget
sleep_ms_uncapped(nearest_wait_ms, remaining_ms) ==
    Min(Max(MinSleepMs, IF nearest_wait_ms # 0 THEN nearest_wait_ms ELSE wait_slice_ms),
        wait_slice_ms)

\* sleep_ms of one iteration of the wait loop
sleep_ms(nearest_wait_ms, remaining_ms) ==
    Min(Min(Max(MinSleepMs, IF nearest_wait_ms # 0 THEN nearest_wait_ms ELSE wait_slice_ms),
            wait_slice_ms),
        remaining_ms)

(***************************************************************************)
(* Callers of the acquisition API                                          *)
(***************************************************************************)
Callers == {1, 2}
WaitTimeouts == {500, 1500}
BlockedKeySets == {{}}
BlockedModelSets == {{}, {"m1", "m2"}}
PreferredKeys == {"", "k2"}
RequestedTokens == {MaxReqTokens \div 2, MaxReqTokens}
UsedTokens == {0, MaxReqTokens}
\* error kinds passed by the lease holders of SpecAlloc: every kind but the
\* key-wide "auth"
ReleaseKinds == ErrorKinds \ {"auth"}

\* AcquireResult; has_lease tells whether lease is set (the lease itself is
\* the last entry of leases).  NoResult is the value before any call returned.
NoResult ==
    [valid |-> FALSE, has_lease |-> FALSE, waited_ms |-> 0,
     retry_after_ms |-> 0, timed_out |-> FALSE]

IdleCaller ==
    [pc |-> "idle", key_pool |-> KeyPool, model_candidates |-> <<>>, requested_tokens |-> 0,
     blocked_keys |-> {}, preferred_key |-> "", wait_timeout_ms |-> 0,
     started_at_ms |-> 0, waited_ms |-> 0, wake_at_ms |-> 0]

SeqMinus(s, drop) == SelectSeq(s, LAMBDA x : x \notin drop)

\* variant that walks the configured candidates last to first
valid_candidates_reversed(model_candidates) ==
    LET kept == SelectSeq(model_candidates, LAMBDA m : m \in Models)
    IN [i \in 1..Len(kept) |-> kept[Len(kept) + 1 - i]]

\* valid_candidates of acquire_for_models: the candidates the configuration knows
valid_candidates(model_candidates) ==
    SelectSeq(model_candidates, LAMBDA m : m \in Models)

\* variant that reports no retry time
timed_out_result_without_retry(elapsed_ms, nearest_wait_ms) ==
    [NoResult EXCEPT !.valid = TRUE, !.waited_ms = elapsed_ms, !.timed_out = TRUE]

\* the AcquireResult of a call that gives up; nearest_wait_ms = 0 stands for None
timed_out_result(elapsed_ms, nearest_wait_ms) ==
    [NoResult EXCEPT !.valid = TRUE, !.waited_ms = elapsed_ms,
                     !.retry_after_ms = Max(0, nearest_wait_ms),
                     !.timed_out = TRUE]

\* One iteration of the `while True` of acquire_for_models, run at time `now`
\* by a caller whose call state is call: the pass, then the timeout check
\* and the decision to sleep.
acquire_iteration(c, call) ==
    LET order == ordered_key_indexes(call.key_pool, call.preferred_key, call.blocked_keys,
                                     next_key_index)
        pass == acquire_pass(valid_candidates(call.model_candidates), call.key_pool, order, call.blocked_keys,
                             call.requested_tokens, now, 1, 1,
                             lane_states, key_states, 0)
        elapsed_ms == Max(0, now - call.started_at_ms)
        timeout_ms == safe_timeout_ms(call.wait_timeout_ms)
        remaining_ms == Max(0, timeout_ms - elapsed_ms)
        nap_ms == sleep_ms(pass.nearest_wait_ms, remaining_ms)
        base == [NoResult EXCEPT !.valid = TRUE]
        timed_out == timed_out_result(elapsed_ms, pass.nearest_wait_ms)
    IN /\ lane_states' = pass.lane_states
       /\ key_states' = pass.key_states
       /\ IF pass.issued
          THEN /\ next_key_index' = (pass.lease.key_index + 1) % Len(call.key_pool)
               /\ leases' = Append(leases, pass.lease @@ [releases |-> 0])
               /\ callers' = [callers EXCEPT ![c] = IdleCaller]
               /\ acquire_result' = [base EXCEPT !.has_lease = TRUE,
                                                 !.waited_ms = call.waited_ms]
          ELSE /\ UNCHANGED <<next_key_index, leases>>
               /\ IF elapsed_ms >= timeout_ms \/ nap_ms <= 0
                  THEN /\ callers' = [callers EXCEPT ![c] = IdleCaller]
                       /\ acquire_result' = timed_out
                  ELSE /\ callers' = [callers EXCEPT ![c] =
                             [call EXCEPT !.pc = "sleeping", !.wake_at_ms = now + nap_ms]]
                       /\ UNCHANGED acquire_result

Sleeping == {c \in Callers : callers[c].pc = "sleeping"}

\* acquire_for_task (and through it acquire_for_models) is entered: the route
\* of the task minus the blocked models is the candidate list; the first
\* iteration of the wait loop runs at once.
AcquireStart(c) ==
    /\ callers[c].pc = "idle"
    \* idle threads are interchangeable: the lowest-numbered one makes the call
    /\ \A d \in Callers : callers[d].pc = "idle" => c <= d
    /\ calls < MaxCalls
    /\ calls' = calls + 1
    /\ \E task \in Tasks, requested_tokens \in RequestedTokens,
          blocked_keys \in BlockedKeySets, blocked_models \in BlockedModelSets,
          wait_timeout_ms \in WaitTimeouts, preferred_key \in PreferredKeys :
          LET candidates == SeqMinus(Routes[task], blocked_models)
              call == [IdleCaller EXCEPT
                          !.model_candidates = candidates,
                          !.requested_tokens = Max(1, requested_tokens),
                          !.blocked_keys = blocked_keys,
                          !.preferred_key = preferred_key,
                          !.wait_timeout_ms = wait_timeout_ms,
                          !.started_at_ms = now]
          IN IF candidates = <<>>
             THEN /\ acquire_result' =
                        [NoResult EXCEPT !.valid = TRUE, !.timed_out = TRUE]
                  /\ UNCHANGED <<lane_states, key_states, next_key_index, leases, callers>>
             ELSE acquire_iteration(c, call)
    /\ UNCHANGED now

\* time.sleep returns: waited_ms is refreshed and the next iteration runs
AcquireWake(c) ==
    /\ callers[c].pc = "sleeping"
    /\ now >= callers[c].wake_at_ms
    /\ acquire_iteration(c, [callers[c] EXCEPT
                                !.waited_ms = Max(0, now - callers[c].started_at_ms)])
    /\ UNCHANGED <<now, calls>>

\* variant that disables the key up to now only
auth_disabled_until_now(disabled_until_ms, now_ms) ==
    Max(disabled_until_ms, now_ms)

\* the auth_disabled_until_ms that release stores on an auth error
auth_disabled_until(disabled_until_ms, now_ms) ==
    Max(disabled_until_ms, now_ms + auth_disable_ms)

\* variant that blocks the lane up to the start of its window only
rate_limit_block_until_window_start(lane) ==
    Max(lane.temp_block_until_ms, lane.window_started_ms)

\* the temp_block_until_ms that release stores on a rate-limit error
rate_limit_block_until(lane) ==
    Max(lane.temp_block_until_ms, lane.window_started_ms + window_ms)

\* release(lease, success=..., used_tokens=..., error_kind=...); used_tokens = 0
\* stands for None
release(ls, ks, lease, used_tokens, error_kind, now_ms) ==
    LET safe_used_tokens ==
            Max(lease.reserved_tokens,
                IF used_tokens # 0 THEN used_tokens ELSE lease.reserved_tokens)
        ks1 == key_state(ks, lease.key)
        ls1 == lane_state(ls, lease.key, lease.model_id, now_ms)
        lane0 == reset_lane_if_window_rolled(ls1[<<lease.key, lease.model_id>>], now_ms)
        lane1 == [lane0 EXCEPT
                    !.in_flight_requests = Max(0, @ - 1),
                    !.in_flight_tokens = Max(0, @ - lease.reserved_tokens),
                    !.requests = @ + 1,
                    !.tokens = @ + safe_used_tokens]
        lane2 == IF error_kind = "rate_limit"
                 THEN [lane1 EXCEPT !.rate_limited_total = @ + 1,
                                    !.temp_block_until_ms = rate_limit_block_until(lane1)]
                 ELSE lane1
        key1 == [ks1[lease.key] EXCEPT !.in_flight_total = Max(0, @ - 1)]
        key2 == IF error_kind = "auth"
                THEN [key1 EXCEPT !.auth_failures_total = @ + 1,
                                  !.auth_disabled_until_ms =
                                      auth_disabled_until(@, now_ms)]
                ELSE IF error_kind = "rate_limit"
                THEN [key1 EXCEPT !.rate_limited_total = @ + 1]
                ELSE key1
    IN [lane_states |-> [ls1 EXCEPT ![<<lease.key, lease.model_id>>] = lane2],
        key_states |-> [ks1 EXCEPT ![lease.key] = key2]]

\* The holder of lease number i releases it, with any outcome and usage.
Release(i) ==
    /\ i \in 1..Len(leases)
    /\ leases[i].releases = 0
    /\ \E success \in BOOLEAN, used_tokens \in UsedTokens, error_kind \in ReleaseKinds :
          LET r == release(lane_states, key_states, leases[i], used_tokens, error_kind, now)
          IN /\ lane_states' = r.lane_states
             /\ key_states' = r.key_states
    /\ leases' = [leases EXCEPT ![i].releases = @ + 1]
    /\ calls < MaxCalls
    /\ calls' = calls + 1
    /\ UNCHANGED <<now, next_key_index, callers, acquire_result>>

\* release() is called again with a lease that was already released.  The
\* allocator does not check that a lease is outstanding, and the OCR fallback
\* loop does this when reading the response body raises after its first
\* release: its handler passes success=False, used_tokens=token_estimate (the
\* reserved amount) and error_kind "timeout" or "other".
ReleaseAgain(i) ==
    /\ i \in 1..Len(leases)
    /\ leases[i].releases \in 1..(MaxReleases - 1)
    /\ \E error_kind \in {"timeout", "other"} :
          LET r == release(lane_states, key_states, leases[i],
                           leases[i].reserved_tokens, error_kind, now)
          IN /\ lane_states' = r.lane_states
             /\ key_states' = r.key_states
    /\ leases' = [leases EXCEPT ![i].releases = @ + 1]
    /\ calls < MaxCalls
    /\ calls' = calls + 1
    /\ UNCHANGED <<now, next_key_index, callers, acquire_result>>

\* The clock advances, but not past the moment a sleeping caller wakes up.
AllocTick ==
    /\ now + TickMs <= StartMs + MaxElapsedMs
    /\ \A c \in Sleeping : callers[c].wake_at_ms > now
    /\ \E t \in {now + TickMs} \cup {callers[c].wake_at_ms : c \in Sleeping} :
          /\ \A c \in Sleeping : t <= callers[c].wake_at_ms
          /\ t <= now + TickMs
          /\ now' = t
    /\ UNCHANGED <<lane_states, key_states, next_key_index, leases, callers,
                   acquire_result, calls>>

(***************************************************************************)
(* External signals, the state dump and releases of leases the allocator   *)
(* did not issue                                                           *)
(***************************************************************************)
SnapshotPools == {KeyPool, <<"k1">>}
\* _routed_models: the models of every route
routed_models == UNION {SeqToSet(Routes[task]) : task \in DOMAIN Routes}

NoSigTrace ==
    [op |-> "none", key |-> "", model_id |-> "", at_ms |-> 0, repeated |-> FALSE,
     lane_states |-> << >>, key_states |-> << >>, next_key_index |-> 0]

\* the trace of a call made now, with the state the call found
SigTrace(op, key, model_id) ==
    [op |-> op, key |-> key, model_id |-> model_id, at_ms |-> now,
     repeated |-> /\ sig_trace.op = op
                  /\ sig_trace.key = key
                  /\ sig_trace.model_id = model_id
                  /\ sig_trace.at_ms = now,
     lane_states |-> lane_states, key_states |-> key_states,
     next_key_index |-> next_key_index]

\* mark_rate_limited(key, model_id)
mark_rate_limited(ls, ks, key, model_id, now_ms) ==
    LET ls1 == lane_state(ls, key, model_id, now_ms)
        lane0 == reset_lane_if_window_rolled(ls1[<<key, model_id>>], now_ms)
        lane1 == [lane0 EXCEPT !.rate_limited_total = @ + 1,
                               !.temp_block_until_ms =
                                   Max(@, lane0.window_started_ms + window_ms)]
        ks1 == key_state(ks, key)
    IN [lane_states |-> [ls1 EXCEPT ![<<key, model_id>>] = lane1],
        key_states |-> [ks1 EXCEPT ![key].rate_limited_total = @ + 1]]

\* variant of mark_auth_failed that extends the disable time by auth_disable_ms
\* from where it stands
mark_auth_failed_extending(ks, key, now_ms) ==
    LET ks1 == key_state(ks, key)
    IN [ks1 EXCEPT ![key].auth_failures_total = @ + 1,
                   ![key].auth_disabled_until_ms = Max(@, now_ms) + auth_disable_ms]

\* mark_auth_failed(key)
mark_auth_failed(ks, key, now_ms) ==
    LET ks1 == key_state(ks, key)
    IN [ks1 EXCEPT ![key].auth_failures_total = @ + 1,
                   ![key].auth_disabled_until_ms = Max(@, now_ms + auth_disable_ms)]

\* what snapshot(key_pool) does to the allocator: it creates the record of
\* every key of the pool and the lane of every (key, model) it reports on,
\* and rolls the window of each of those lanes
RECURSIVE snapshot_lanes(_, _, _)
snapshot_lanes(ls, ids, now_ms) ==
    IF ids = {} THEN ls
    ELSE LET id == CHOOSE x \in ids : TRUE
             ls1 == lane_state(ls, id[1], id[2], now_ms)
         IN snapshot_lanes([ls1 EXCEPT ![id] = reset_lane_if_window_rolled(ls1[id], now_ms)],
                           ids \ {id}, now_ms)

RECURSIVE snapshot_keys(_, _)
snapshot_keys(ks, keys) ==
    IF keys = {} THEN ks
    ELSE LET key == CHOOSE x \in keys : TRUE
         IN snapshot_keys(key_state(ks, key), keys \ {key})

snapshot(ls, ks, key_pool, now_ms) ==
    [lane_states |-> snapshot_lanes(ls, SeqToSet(key_pool) \X (routed_models \cup Models),
                                    now_ms),
     key_states |-> snapshot_keys(ks, SeqToSet(key_pool))]

\* leases built by a caller, not returned by acquire_for_models
UnissuedLeases ==
    {[key |-> key, model_id |-> model_id, key_index |-> 0, model_index |-> 0,
      reserved_tokens |-> tokens, reserved_at_ms |-> 0, window_started_ms |-> 0] :
        key \in Keys, model_id \in {"m1"}, tokens \in {1}}
UnissuedKinds == {"", "auth", "rate_limit"}

MarkRateLimited(key, model_id) ==
    /\ calls < MaxCalls
    /\ calls' = calls + 1
    /\ LET r == mark_rate_limited(lane_states, key_states, key, model_id, now)
       IN /\ lane_states' = r.lane_states
          /\ key_states' = r.key_states
    /\ sig_trace' = SigTrace("mark_rate_limited", key, model_id)
    /\ UNCHANGED <<now, next_key_index, leases, callers, acquire_result>>

MarkAuthFailed(key) ==
    /\ calls < MaxCalls
    /\ calls' = calls + 1
    /\ key_states' = mark_auth_failed(key_states, key, now)
    /\ sig_trace' = SigTrace("mark_auth_failed", key, "")
    /\ UNCHANGED <<now, lane_states, next_key_index, leases, callers, acquire_result>>

Snapshot(key_pool) ==
    /\ calls < MaxCalls
    /\ calls' = calls + 1
    /\ LET r == snapshot(lane_states, key_states, key_pool, now)
       IN /\ lane_states' = r.lane_states
          /\ key_states' = r.key_states
    /\ sig_trace' = SigTrace("snapshot", "", "")
    /\ UNCHANGED <<now, next_key_index, leases, callers, acquire_result>>

\* release() is called with a lease the allocator never issued
ReleaseUnissued(lease, used_tokens, error_kind) ==
    /\ calls < MaxCalls
    /\ calls' = calls + 1
    /\ LET r == release(lane_states, key_states, lease, used_tokens, error_kind, now)
       IN /\ lane_states' = r.lane_states
          /\ key_states' = r.key_states
    /\ sig_trace' = SigTrace("release_unissued", lease.key, lease.model_id)
    /\ UNCHANGED <<now, next_key_index, leases, callers, acquire_result>>

\* penalties before any release, over the keys of RotationPool: 0 stands for never
NoPenalties ==
    [auth |-> [key \in {"k1", "k2", "k3"} |-> 0],
     rate |-> [lane \in {"k1", "k2", "k3"} \X Models |-> 0],
     others_usable |-> TRUE]

\* pass_trace before any pass
NoPass ==
    [valid |-> FALSE, cursor |-> 0, key_pool |-> << >>, preferred_key |-> "",
     blocked_keys |-> {}, candidates |-> << >>, order |-> << >>, ready |-> {},
     issued |-> FALSE, key_index |-> 0, model_id |-> "", run |-> << >>,
     at_ms |-> 0, auth_released_at_ms |-> 0, rate_limited_until_ms |-> 0,
     returned |-> FALSE, all_at_budget |-> FALSE, smallest_wait_ms |-> 0]

AllocatorInit ==
    /\ now = StartMs
    /\ lane_states = << >>
    /\ key_states = << >>
    /\ next_key_index = 0
    /\ leases = << >>
    /\ callers = [c \in Callers |-> IdleCaller]
    /\ acquire_result = NoResult
    /\ calls = 0
    /\ sig_trace = NoSigTrace
    /\ pass_trace = NoPass
    /\ penalties = NoPenalties

\* no lease-holding loop has been entered
NoLoop ==
    [pc |-> "idle", attempt |-> 0, blocked_keys |-> {}, blocked_models |-> {},
     preferred_key |-> "", speech_attempts |-> 0, speech_index |-> 0,
     started_at_ms |-> 0, lease |-> 0, timed_out |-> FALSE,
     model_attempts |-> << >>, error_code |-> "", evicted |-> FALSE]



(***************************************************************************)
(* Allocator properties                                                    *)
(***************************************************************************)
LaneIds == DOMAIN lane_states
InFlightTotal(key) ==
    IF key \in DOMAIN key_states THEN key_states[key].in_flight_total ELSE 0
LeaseIds == 1..Len(leases)
OnLane(i, key, model_id) == leases[i].key = key /\ leases[i].model_id = model_id
SameLane(i, j) == OnLane(j, leases[i].key, leases[i].model_id)

RECURSIVE SumTokens(_)
SumTokens(ids) ==
    IF ids = {} THEN 0
    ELSE LET i == CHOOSE x \in ids : TRUE
         IN leases[i].reserved_tokens + SumTokens(ids \ {i})

\* C1: on every lane, counted requests plus in-flight requests never exceed
\* the model's RPM, and counted tokens plus in-flight tokens never exceed its
\* TPM, whatever acquisitions, releases and rollovers happened.
C1_LaneWithinBudget ==
    \A id \in LaneIds :
        LET lane == lane_states[id]
            limit == ModelLimit(id[2])
        IN /\ lane.requests + lane.in_flight_requests <= limit.rpm
           /\ lane.tokens + lane.in_flight_tokens <= limit.tpm

\* C2: each key's in-flight counter equals the number of leases issued for
\* that key that have not been released.
C2_KeyInFlightIsOutstanding ==
    \A key \in Keys :
        InFlightTotal(key) =
            Cardinality({i \in LeaseIds : leases[i].key = key /\ leases[i].releases = 0})

\* C3 as claimed: in any interval of length windowSeconds the leases issued on
\* one lane number at most RPM and reserve at most TPM tokens.  (An interval
\* holding the most leases can be taken to start at a lease's issue time.)
InInterval(i) ==
    {j \in LeaseIds : /\ SameLane(i, j)
                      /\ leases[j].reserved_at_ms >= leases[i].reserved_at_ms
                      /\ leases[j].reserved_at_ms < leases[i].reserved_at_ms + window_ms}
C3_AnyIntervalWithinBudget ==
    \A i \in LeaseIds :
        /\ Cardinality(InInterval(i)) <= ModelLimit(leases[i].model_id).rpm
        /\ SumTokens(InInterval(i)) <= ModelLimit(leases[i].model_id).tpm

\* C3 amended: within one window of a lane (from one reset of its
\* window_started_ms to the next) the leases issued on the lane number at
\* most RPM and reserve at most TPM tokens.
InWindow(i) ==
    {j \in LeaseIds : SameLane(i, j)
                      /\ leases[j].window_started_ms = leases[i].window_started_ms}
C3_EachLaneWindowWithinBudget ==
    \A i \in LeaseIds :
        /\ Cardinality(InWindow(i)) <= ModelLimit(leases[i].model_id).rpm
        /\ SumTokens(InWindow(i)) <= ModelLimit(leases[i].model_id).tpm
\* two leases of one lane issued less than a window apart, in different windows
C3_Witness ==
    \E i, j \in LeaseIds :
        /\ i # j /\ SameLane(i, j)
        /\ leases[j].window_started_ms # leases[i].window_started_ms
        /\ leases[j].reserved_at_ms - leases[i].reserved_at_ms \in 0..(window_ms - 1)

\* the step in which caller c's acquisition call returns after having slept
ReturnsAfterSleep(c) == callers[c].pc = "sleeping" /\ callers'[c].pc = "idle"

\* C5 as claimed: a call returns no later than the caller's waitTimeoutMs
\* after it started (the configured default when none was passed).
C5_ReturnsWithinCallerTimeout ==
    [][\A c \in Callers :
          ReturnsAfterSleep(c) =>
              now - callers[c].started_at_ms <=
                  (IF callers[c].wait_timeout_ms # 0 THEN callers[c].wait_timeout_ms
                   ELSE DefaultWaitTimeoutMs)]_vars

\* C5 amended: a call returns a lease or timedOut=true, never both and never
\* neither; it never sleeps past max(1000 ms, waitTimeoutMs) after its start
\* and returns no later than that.
C5_ReturnsWithinFlooredTimeout ==
    /\ [](acquire_result.valid => (acquire_result.has_lease # acquire_result.timed_out))
    /\ [](\A c \in Sleeping :
             /\ now <= callers[c].wake_at_ms
             /\ callers[c].wake_at_ms <=
                   callers[c].started_at_ms + safe_timeout_ms(callers[c].wait_timeout_ms))
    /\ [][\A c \in Callers :
             ReturnsAfterSleep(c) =>
                 /\ now - callers[c].started_at_ms <= safe_timeout_ms(callers[c].wait_timeout_ms)
                 /\ acquire_result'.waited_ms <= safe_timeout_ms(callers[c].wait_timeout_ms)]_vars
\* a call gave up after waiting out a timeout that was raised to the floor
C5_Witness ==
    /\ acquire_result.valid /\ acquire_result.timed_out
    /\ acquire_result.waited_ms >= MinWaitTimeoutMs

(***************************************************************************)
(* The lease-holding retry loops: _synthesize_pcm_with_key_pool of the     *)
(* Gemini runtime (task "tts") and _extract_text_with_gemini_fallback of   *)
(* the backend (task "ocr").  A process runs one kind of loop, on threads  *)
(* that share the process's allocator.                                     *)
(***************************************************************************)
MaxAttempts == 2         \* leases the loops obtain in one run

LoopKinds == {"tts", "ocr"}
\* KEY_TOTAL_TIMEOUT_MS and BACKEND_GEMINI_ALLOCATOR_WAIT_TIMEOUT_MS
LoopTimeoutMs == [tts |-> 1000, ocr |-> 1000]
\* estimate_text_tokens(..) of the request
token_estimate == MaxReqTokens \div 2
\* len(speech_attempts): single-speaker only, or multi-speaker then single
SpeechAttemptCounts == {1, 2}
\* how generate_content ends: it returns audio, or raises an error that
\* _is_timeout_error / _is_auth_error / _is_rate_limit_error classify
TtsOutcomes == {"ok", "timeout", "auth", "rate_limit", "other"}
\* how requests.post ends: 2xx, 401/403, 429, another status, or it raises
OcrOutcomes == {"ok", "auth", "rate_limit", "status", "raises"}
\* what reading the 2xx body gives: text, no candidates or no text, or an
\* exception (response.json() on a body that is not JSON, a candidate that
\* is not an object)
OcrBodies == {"text", "empty", "raises"}

remaining_timeout_ms(started_at_ms, total_timeout_ms, now_ms) ==
    Max(0, total_timeout_ms - Max(0, now_ms - started_at_ms))

\* where a loop that ends without a result goes: the TTS loop builds its
\* terminal error, the OCR loop returns
after_loop == IF loop_kind = "tts" THEN "exhausted" ELSE "done"

\* the loop's locals after acquire_for_task returned or went to sleep
after_acquire(loop, c, cs, result, lease_count) ==
    IF cs[c].pc = "sleeping" THEN [loop EXCEPT !.pc = "acquiring"]
    ELSE IF result.has_lease
    THEN [loop EXCEPT !.pc = "holding", !.attempt = @ + 1, !.lease = lease_count]
    ELSE [loop EXCEPT !.pc = after_loop, !.timed_out = result.timed_out]

\* the speakers a synthesis request carries, normalized
AffinitySpeakers == {"A"}

\* _resolve_affinity_preferred_key: the key one of the speakers is bound
\* to, if the pool has it
_resolve_affinity_preferred_key(affinity, speakers, key_pool) ==
    LET bound == {s \in speakers : affinity[s] # "" /\ affinity[s] \in SeqToSet(key_pool)}
    IN IF bound = {} THEN "" ELSE affinity[CHOOSE s \in bound : TRUE]

\* _bind_speakers_to_key
_bind_speakers_to_key(affinity, speakers, key) ==
    [s \in DOMAIN affinity |-> IF s \in speakers THEN key ELSE affinity[s]]

\* _evict_speaker_key_affinity_for_key: the speakers bound to the failed
\* key lose their binding
_evict_speaker_key_affinity_for_key(affinity, speakers, key) ==
    [s \in DOMAIN affinity |->
        IF s \in speakers /\ affinity[s] = key THEN "" ELSE affinity[s]]

\* a thread enters the loop
LoopBegin(w) ==
    /\ loops[w].pc = "idle"
    \* idle threads are interchangeable: the lowest-numbered one takes the request
    /\ \A v \in Callers : loops[v].pc = "idle" => w <= v
    /\ \E count \in SpeechAttemptCounts :
          loops' = [loops EXCEPT ![w] =
                      [NoLoop EXCEPT !.pc = "top",
                                     !.preferred_key =
                                         IF loop_kind = "tts"
                                         THEN _resolve_affinity_preferred_key(
                                                  speaker_key_affinity, AffinitySpeakers,
                                                  KeyPool)
                                         ELSE "",
                                     !.speech_attempts =
                                         IF loop_kind = "tts" THEN count ELSE 0,
                                     !.started_at_ms = now]]
    /\ UNCHANGED <<allocVars, loop_kind, speaker_key_affinity>>

\* top of `while True`: the budget check, then acquire_for_task up to its
\* return or its first sleep
LoopAcquire(w) ==
    /\ loops[w].pc = "top"
    \* a loop that has blocked every key obtains no further lease
    /\ Len(leases) < MaxAttempts \/ loops[w].blocked_keys = Keys
    /\ LET loop == loops[w]
           remaining_ms == remaining_timeout_ms(loop.started_at_ms,
                                                LoopTimeoutMs[loop_kind], now)
           candidates == SeqMinus(Routes[loop_kind], loop.blocked_models)
           call == [IdleCaller EXCEPT
                       !.model_candidates = candidates,
                       !.requested_tokens = Max(1, token_estimate),
                       !.blocked_keys = loop.blocked_keys,
                       !.preferred_key =
                           IF loop.attempt = 0 THEN loop.preferred_key ELSE "",
                       !.wait_timeout_ms = remaining_ms,
                       !.started_at_ms = now]
       IN IF remaining_ms <= 0
          THEN /\ loops' = [loops EXCEPT ![w] =
                              [loop EXCEPT !.pc = after_loop,
                                           !.timed_out = (loop_kind = "tts")]]
               /\ UNCHANGED <<lane_states, key_states, next_key_index, leases,
                              callers, acquire_result>>
          ELSE IF candidates = <<>>
          THEN /\ acquire_result' =
                     [NoResult EXCEPT !.valid = TRUE, !.timed_out = TRUE]
               /\ loops' = [loops EXCEPT ![w] =
                              [loop EXCEPT !.pc = after_loop, !.timed_out = TRUE]]
               /\ UNCHANGED <<lane_states, key_states, next_key_index, leases, callers>>
          ELSE /\ acquire_iteration(w, call)
               /\ loops' = [loops EXCEPT ![w] =
                              after_acquire(loop, w, callers', acquire_result',
                                            Len(leases'))]
    /\ UNCHANGED <<now, calls, loop_kind, speaker_key_affinity>>

\* acquire_for_task wakes from its sleep inside the loop
LoopWake(w) ==
    /\ loops[w].pc = "acquiring"
    /\ AcquireWake(w)
    /\ loops' = [loops EXCEPT ![w] =
                    after_acquire(loops[w], w, callers', acquire_result', Len(leases'))]
    /\ UNCHANGED <<loop_kind, speaker_key_affinity>>

\* the allocator state and the lease list after release(lease number i, ..)
LoopRelease(i, error_kind) ==
    LET r == release(lane_states, key_states, leases[i], token_estimate, error_kind, now)
    IN /\ lane_states' = r.lane_states
       /\ key_states' = r.key_states
       /\ leases' = [leases EXCEPT ![i].releases = @ + 1]

\* generate_content returns or raises: the `try` of the TTS loop up to the
\* next call that takes a lock another thread may hold.  On success the
\* lease is released and the speakers are still to be bound; on an auth
\* error the key is blocked for this request and the speakers' affinity to
\* it is evicted under _KEY_STATE_LOCK, the release is still to come; on
\* every other error the lease is released and the loop goes on
TtsCall(w) ==
    /\ loop_kind = "tts"
    /\ loops[w].pc = "holding"
    /\ \E outcome \in TtsOutcomes :
          LET loop == loops[w]
              lease == leases[loop.lease]
          IN IF outcome = "ok"
             THEN /\ LoopRelease(loop.lease, "")
                  /\ loops' = [loops EXCEPT ![w] = [loop EXCEPT !.pc = "binding"]]
                  /\ UNCHANGED speaker_key_affinity
             ELSE IF outcome = "auth"
             THEN /\ speaker_key_affinity' =
                        _evict_speaker_key_affinity_for_key(speaker_key_affinity,
                                                            AffinitySpeakers, lease.key)
                  /\ loops' = [loops EXCEPT ![w] =
                        [loop EXCEPT !.blocked_keys = @ \cup {lease.key},
                                     !.evicted = \E s \in AffinitySpeakers :
                                                    speaker_key_affinity[s] = lease.key,
                                     !.pc = "releasing"]]
                  /\ UNCHANGED <<lane_states, key_states, leases>>
             ELSE /\ LoopRelease(loop.lease, outcome)
                  /\ loops' = [loops EXCEPT ![w] =
                        LET failed == [loop EXCEPT !.model_attempts = Append(@, outcome)]
                        IN IF outcome = "timeout"
                           THEN [failed EXCEPT !.timed_out = TRUE, !.pc = "exhausted"]
                           ELSE IF outcome = "rate_limit"
                           THEN [failed EXCEPT !.pc = "top"]
                           ELSE IF loop.speech_index + 1 < loop.speech_attempts
                           THEN [failed EXCEPT !.speech_index = @ + 1, !.pc = "top"]
                           ELSE [failed EXCEPT !.blocked_models = @ \cup {lease.model_id},
                                               !.pc = "top"]]
                  /\ UNCHANGED speaker_key_affinity
    /\ UNCHANGED <<now, next_key_index, callers, acquire_result, calls, loop_kind>>

\* after the release of a successful call: _bind_speakers_to_key under
\* _KEY_STATE_LOCK, then the audio is returned
TtsBind(w) ==
    /\ loop_kind = "tts"
    /\ loops[w].pc = "binding"
    /\ speaker_key_affinity' =
          _bind_speakers_to_key(speaker_key_affinity, AffinitySpeakers,
                                leases[loops[w].lease].key)
    /\ loops' = [loops EXCEPT ![w].pc = "done"]
    /\ UNCHANGED <<allocVars, loop_kind>>

\* after the eviction of an auth error: release(.., error_kind="auth") under
\* the allocator's lock, which disables the key, then the attempt is noted
TtsAuthRelease(w) ==
    /\ loop_kind = "tts"
    /\ loops[w].pc = "releasing"
    /\ LoopRelease(loops[w].lease, "auth")
    /\ loops' = [loops EXCEPT ![w].model_attempts = Append(@, "auth"), ![w].pc = "top"]
    /\ UNCHANGED <<now, next_key_index, callers, acquire_result, calls, loop_kind,
                   speaker_key_affinity>>

ERROR_CODE_ALL_KEYS_AUTH_FAILED == "GEMINI_ALL_KEYS_AUTH_FAILED"
ERROR_CODE_ALL_KEYS_RATE_LIMITED == "GEMINI_ALL_KEYS_RATE_LIMITED"
ERROR_CODE_KEY_POOL_TIMEOUT == "GEMINI_KEY_POOL_TIMEOUT"
ERROR_CODE_UPSTREAM_MODEL_FAILED == "GEMINI_UPSTREAM_MODEL_FAILED"

\* _classify_terminal_error_code; an attempt stands for the class of its
\* error text: "timeout", "auth", "rate_limit" or "other"
classify_terminal_error_code(model_attempts, timed_out) ==
    LET errors == SeqToSet(model_attempts)
        saw_auth == "auth" \in errors
        saw_rate == "rate_limit" \in errors
        saw_non_rate_non_noise == "other" \in errors
    IN IF timed_out THEN ERROR_CODE_KEY_POOL_TIMEOUT
       ELSE IF model_attempts = << >> THEN ERROR_CODE_UPSTREAM_MODEL_FAILED
       ELSE IF "timeout" \in errors THEN ERROR_CODE_KEY_POOL_TIMEOUT
       ELSE IF saw_auth /\ ~saw_rate /\ ~saw_non_rate_non_noise
       THEN ERROR_CODE_ALL_KEYS_AUTH_FAILED
       ELSE IF saw_rate /\ ~saw_auth /\ ~saw_non_rate_non_noise
       THEN ERROR_CODE_ALL_KEYS_RATE_LIMITED
       ELSE ERROR_CODE_UPSTREAM_MODEL_FAILED

\* after the loop of _synthesize_pcm_with_key_pool: the allocator snapshot
\* is taken, the terminal error code is classified and the error is raised
TtsRaise(w) ==
    /\ loop_kind = "tts"
    /\ loops[w].pc = "exhausted"
    /\ LET r == snapshot(lane_states, key_states, KeyPool, now)
       IN /\ lane_states' = r.lane_states
          /\ key_states' = r.key_states
    /\ loops' = [loops EXCEPT ![w] =
                    [@ EXCEPT !.pc = "done",
                              !.error_code = classify_terminal_error_code(
                                                 loops[w].model_attempts, loops[w].timed_out)]]
    /\ UNCHANGED <<now, next_key_index, leases, callers, acquire_result, calls, loop_kind,
                   speaker_key_affinity>>

\* requests.post returns or raises: on 2xx the lease is released with
\* success=True before the body is read
OcrCall(w) ==
    /\ loop_kind = "ocr"
    /\ loops[w].pc = "holding"
    /\ \E outcome \in OcrOutcomes, raised_kind \in {"timeout", "other"} :
          LET loop == loops[w]
              lease == leases[loop.lease]
          IN IF outcome = "ok"
             THEN /\ LoopRelease(loop.lease, "")
                  /\ loops' = [loops EXCEPT ![w] = [loop EXCEPT !.pc = "parsing"]]
             ELSE IF outcome = "auth"
             THEN /\ LoopRelease(loop.lease, "auth")
                  /\ loops' = [loops EXCEPT ![w] =
                        [loop EXCEPT !.blocked_keys = @ \cup {lease.key}, !.pc = "top"]]
             ELSE IF outcome = "rate_limit"
             THEN /\ LoopRelease(loop.lease, "rate_limit")
                  /\ loops' = [loops EXCEPT ![w] = [loop EXCEPT !.pc = "top"]]
             ELSE /\ LoopRelease(loop.lease,
                                 IF outcome = "status" THEN "other" ELSE raised_kind)
                  /\ loops' = [loops EXCEPT ![w] =
                        [loop EXCEPT !.blocked_models = @ \cup {lease.model_id},
                                     !.pc = "top"]]
    /\ UNCHANGED <<now, next_key_index, callers, acquire_result, calls, loop_kind,
                   speaker_key_affinity>>

\* the 2xx body is read, still inside the `try`: an exception here reaches
\* the `except Exception` handler, which releases the lease it still names
OcrParse(w) ==
    /\ loop_kind = "ocr"
    /\ loops[w].pc = "parsing"
    /\ \E body \in OcrBodies, raised_kind \in {"timeout", "other"} :
          LET loop == loops[w]
              lease == leases[loop.lease]
          IN IF body = "text"
             THEN /\ loops' = [loops EXCEPT ![w] = [loop EXCEPT !.pc = "done"]]
                  /\ UNCHANGED <<lane_states, key_states, leases>>
             ELSE IF body = "empty"
             THEN /\ loops' = [loops EXCEPT ![w] =
                        [loop EXCEPT !.blocked_models = @ \cup {lease.model_id},
                                     !.pc = "top"]]
                  /\ UNCHANGED <<lane_states, key_states, leases>>
             ELSE /\ LoopRelease(loop.lease, raised_kind)
                  /\ loops' = [loops EXCEPT ![w] =
                        [loop EXCEPT !.blocked_models = @ \cup {lease.model_id},
                                     !.pc = "top"]]
    /\ UNCHANGED <<now, next_key_index, callers, acquire_result, calls, loop_kind,
                   speaker_key_affinity>>


Holder(i) == {w \in Callers : loops[w].lease = i /\ loops[w].pc \in {"holding", "releasing"}}

\* C4: every lease obtained by the TTS synthesis loop and by the OCR fallback
\* loop is released exactly once on every path: while the request that uses
\* it is in flight it has not been released, and from then on it has been
\* released once.
C4_LeaseReleasedExactlyOnce ==
    \A i \in LeaseIds :
        leases[i].releases = (IF Holder(i) # {} THEN 0 ELSE 1)

(***************************************************************************)
(* Quota reservation: _reserve_usage / _finalize_usage and their only      *)
(* caller, the /tts/synthesize handler.  One user; every call runs under   *)
(* _INMEMORY_LOCK (or as one Firestore transaction), so it is one step.    *)
(***************************************************************************)
MonthlyVfLimit == 7          \* entitlement.monthlyVfLimit of the user
DailyGenerationLimit == 1    \* entitlement.dailyGenerationLimit of the user
MaxChars == 2                \* longest text, in characters
MaxDay == 1                  \* last day the calendar reaches
DaysPerMonth == 2            \* day d lies in month d \div DaysPerMonth
StartDay == 0

VF_ENGINE_RATES == [GEM |-> 3, KOKORO |-> 1]
Engines == DOMAIN VF_ENGINE_RATES
RequestIds == {"r1", "r2"}
CharCounts == {1, MaxChars}
Handlers == {1, 2}

\* _inmemory_usage_month_doc_id / _inmemory_usage_day_doc_id of the one user
month_doc_id(day) == day \div DaysPerMonth
day_doc_id(day) == day

\* _usage_defaults: the counters of a period without usage
usage_defaults ==
    [vfUsed |-> 0, generationCount |-> 0,
     byEngine |-> [e \in Engines |-> [chars |-> 0, vf |-> 0]]]

NoEvent ==
    [status |-> "", engine |-> "", chars |-> 0, vfCost |-> 0,
     monthDocId |-> 0, dayDocId |-> 0]

\* dict.get(id) or default
GetDoc(docs, id) == IF id \in DOMAIN docs THEN docs[id] ELSE usage_defaults
GetEvent(events, request_id) ==
    IF request_id \in DOMAIN events THEN events[request_id] ELSE NoEvent
\* dict[id] = value
PutDoc(docs, id, value) ==
    [x \in (DOMAIN docs) \cup {id} |-> IF x = id THEN value ELSE docs[x]]

\* variant of _reserve_usage's early return that only recognises status reserved
AlreadyReserved_reserved_only(event) == event.status \in {"reserved"}

\* the early return of _reserve_usage: the event exists with status reserved
\* or committed
AlreadyReserved(event) == event.status \in {"reserved", "committed"}

\* variant of the limit checks that lets a reservation end one generation
\* above the daily limit
WithinLimits_off_by_one(monthly, daily, vf_cost) ==
    /\ monthly.vfUsed + vf_cost <= MonthlyVfLimit
    /\ daily.generationCount + 1 <= DailyGenerationLimit + 1

\* the two limit checks of _reserve_usage; FALSE is the 429
WithinLimits(monthly, daily, vf_cost) ==
    /\ monthly.vfUsed + vf_cost <= MonthlyVfLimit
    /\ daily.generationCount + 1 <= DailyGenerationLimit

\* the increments of _reserve_usage on one usage document
add_usage(doc, engine, chars, vf_cost) ==
    [doc EXCEPT !.vfUsed = @ + vf_cost,
                !.generationCount = @ + 1,
                !.byEngine[engine].chars = @ + chars,
                !.byEngine[engine].vf = @ + vf_cost]

\* variant of the decrements that leaves generationCount as it is
sub_usage_keeping_count(doc, engine, chars, vf_cost) ==
    [doc EXCEPT !.vfUsed = Max(0, @ - vf_cost),
                !.byEngine[engine].chars = Max(0, @ - chars),
                !.byEngine[engine].vf = Max(0, @ - vf_cost)]

\* the decrements of _finalize_usage on one usage document
sub_usage(doc, engine, chars, vf_cost) ==
    [doc EXCEPT !.vfUsed = Max(0, @ - vf_cost),
                !.generationCount = Max(0, @ - 1),
                !.byEngine[engine].chars = Max(0, @ - chars),
                !.byEngine[engine].vf = Max(0, @ - vf_cost)]

\* _reserve_usage(uid, request_id, engine, char_count) on day `day`
reserve_usage(events, monthly_docs, daily_docs, request_id, engine, char_count, day) ==
    LET safe_engine == IF engine \in Engines THEN engine ELSE "GEM"
        safe_chars == Max(0, char_count)
        vf_cost == safe_chars * VF_ENGINE_RATES[safe_engine]
        monthly_doc_id == month_doc_id(day)
        daily_doc_id == day_doc_id(day)
        monthly == GetDoc(monthly_docs, monthly_doc_id)
        daily == GetDoc(daily_docs, daily_doc_id)
        event == GetEvent(events, request_id)
        event_payload ==
            [status |-> "reserved", engine |-> safe_engine, chars |-> safe_chars,
             vfCost |-> vf_cost, monthDocId |-> monthly_doc_id, dayDocId |-> daily_doc_id]
        unchanged == [usage_events |-> events, usage_monthly |-> monthly_docs,
                      usage_daily |-> daily_docs]
    IN IF AlreadyReserved(event)
       THEN unchanged @@ [ok |-> TRUE, alreadyReserved |-> TRUE, event |-> event]
       ELSE IF ~WithinLimits(monthly, daily, vf_cost)
       THEN unchanged @@ [ok |-> FALSE, alreadyReserved |-> FALSE, event |-> NoEvent]
       ELSE [ok |-> TRUE, alreadyReserved |-> FALSE, event |-> event_payload,
             usage_events |-> PutDoc(events, request_id, event_payload),
             usage_monthly |-> PutDoc(monthly_docs, monthly_doc_id,
                                      add_usage(monthly, safe_engine, safe_chars, vf_cost)),
             usage_daily |-> PutDoc(daily_docs, daily_doc_id,
                                    add_usage(daily, safe_engine, safe_chars, vf_cost))]

\* the revert branch of _finalize_usage for an event with status reserved:
\* the documents named by the event are decremented if they exist
revert_docs(docs, id, event) ==
    IF id \in DOMAIN docs
    THEN PutDoc(docs, id, sub_usage(docs[id], event.engine, event.chars, event.vfCost))
    ELSE docs

\* variant of _finalize_usage without the early return for a committed event
finalize_usage_reverting_committed(events, monthly_docs, daily_docs, request_id, success) ==
    LET event == GetEvent(events, request_id)
    IN IF request_id \notin DOMAIN events
       THEN [usage_events |-> events, usage_monthly |-> monthly_docs,
             usage_daily |-> daily_docs]
       ELSE IF success
       THEN [usage_events |-> PutDoc(events, request_id,
                                     [event EXCEPT !.status = "committed"]),
             usage_monthly |-> monthly_docs, usage_daily |-> daily_docs]
       ELSE [usage_events |-> PutDoc(events, request_id,
                                     [event EXCEPT !.status = "reverted"]),
             usage_monthly |-> IF event.status = "reserved"
                               THEN revert_docs(monthly_docs, event.monthDocId, event)
                               ELSE monthly_docs,
             usage_daily |-> IF event.status = "reserved"
                             THEN revert_docs(daily_docs, event.dayDocId, event)
                             ELSE daily_docs]

\* _finalize_usage(uid, request_id, success)
finalize_usage(events, monthly_docs, daily_docs, request_id, success) ==
    LET event == GetEvent(events, request_id)
        unchanged == [usage_events |-> events, usage_monthly |-> monthly_docs,
                      usage_daily |-> daily_docs]
    IN IF request_id \notin DOMAIN events
       THEN unchanged
       ELSE IF event.status = "committed"
       THEN unchanged
       ELSE IF success
       THEN [unchanged EXCEPT !.usage_events =
                PutDoc(events, request_id, [event EXCEPT !.status = "committed"])]
       ELSE [usage_events |-> PutDoc(events, request_id,
                                     [event EXCEPT !.status = "reverted"]),
             usage_monthly |-> IF event.status = "reserved"
                               THEN revert_docs(monthly_docs, event.monthDocId, event)
                               ELSE monthly_docs,
             usage_daily |-> IF event.status = "reserved"
                             THEN revert_docs(daily_docs, event.dayDocId, event)
                             ELSE daily_docs]

\* what the last quota call was, with the state it found: the event of its
\* request id and the usage documents before the call, and, for a finalize
\* that directly follows the Reserve of the same request id, the documents
\* before that Reserve
NoTrace ==
    [op |-> "none", request_id |-> "", ok |-> FALSE, alreadyReserved |-> FALSE,
     success |-> FALSE, after_reserve |-> FALSE, after_fresh_reserve |-> FALSE,
     event_before |-> NoEvent, event_returned |-> NoEvent,
     monthly_before |-> << >>, daily_before |-> << >>,
     monthly_base |-> << >>, daily_base |-> << >>]

IdleHandler == [pc |-> "idle", request_id |-> ""]

\* /tts/synthesize up to the runtime call: the reservation; a 429 ends the
\* request, otherwise the runtime call is prepared and sent
TtsReserve(h) ==
    /\ handlers[h].pc = "idle"
    /\ \A g \in Handlers : handlers[g].pc = "idle" => h <= g
    /\ \E request_id \in RequestIds, engine \in Engines, chars \in CharCounts :
          LET r == reserve_usage(usage_events, usage_monthly, usage_daily,
                                 request_id, engine, chars, today)
          IN /\ usage_events' = r.usage_events
             /\ usage_monthly' = r.usage_monthly
             /\ usage_daily' = r.usage_daily
             /\ handlers' = [handlers EXCEPT ![h] =
                                IF r.ok THEN [pc |-> "calling", request_id |-> request_id]
                                ELSE IdleHandler]
             /\ quota_trace' =
                   [NoTrace EXCEPT !.op = "reserve", !.request_id = request_id,
                                   !.ok = r.ok, !.alreadyReserved = r.alreadyReserved,
                                   !.event_before = GetEvent(usage_events, request_id),
                                   !.event_returned = r.event,
                                   !.monthly_before = usage_monthly,
                                   !.daily_before = usage_daily]
    /\ UNCHANGED today

\* the handler's call of _finalize_usage and the trace it leaves
Finalize(h, success) ==
    LET request_id == handlers[h].request_id
        f == finalize_usage(usage_events, usage_monthly, usage_daily, request_id, success)
        follows == /\ quota_trace.op = "reserve"
                   /\ quota_trace.ok
                   /\ quota_trace.request_id = request_id
    IN /\ usage_events' = f.usage_events
       /\ usage_monthly' = f.usage_monthly
       /\ usage_daily' = f.usage_daily
       /\ handlers' = [handlers EXCEPT ![h] = IdleHandler]
       /\ quota_trace' =
             [NoTrace EXCEPT !.op = "finalize", !.request_id = request_id,
                             !.success = success,
                             !.after_reserve = follows,
                             !.after_fresh_reserve =
                                 (follows /\ ~quota_trace.alreadyReserved),
                             !.event_before = GetEvent(usage_events, request_id),
                             !.monthly_before = usage_monthly,
                             !.daily_before = usage_daily,
                             !.monthly_base =
                                 IF follows THEN quota_trace.monthly_before ELSE << >>,
                             !.daily_base =
                                 IF follows THEN quota_trace.daily_before ELSE << >>]

\* the runtime cannot be reached or answers non-2xx: the reservation is
\* finalized with success=False and the error is passed on
TtsRuntimeFails(h) ==
    /\ handlers[h].pc = "calling"
    /\ Finalize(h, FALSE)
    /\ UNCHANGED today

\* the runtime answers 2xx: the reservation is committed, the audio returned
TtsRuntimeSucceeds(h) ==
    /\ handlers[h].pc = "calling"
    /\ Finalize(h, TRUE)
    /\ UNCHANGED today

\* _utc_now() passes midnight
NextDay ==
    /\ today < MaxDay
    /\ today' = today + 1
    /\ UNCHANGED <<usage_events, usage_monthly, usage_daily, handlers, quota_trace>>

(***************************************************************************)
(* Dubbing job v2: the record made by create_dubbing_job_v2, its worker    *)
(* thread _run_dubbing_job_v2 and the cancel endpoint.  Every update of    *)
(* the record runs under DUBBING_JOB_LOCK.                                 *)
(***************************************************************************)
STAGE_ORDER ==
    <<"stage1_preprocess", "stage2_diarize", "stage3_emotion",
      "stage4_segment_detect", "stage5_translate", "stage6_tts",
      "stage7_world", "stage8_reconstruct", "stage9_lipsync">>

\* stage_map of _run_dubbing_job_v2: the job's stage name of a pipeline stage
stage_map ==
    [stage1_preprocess |-> "preprocess", stage2_diarize |-> "diarize",
     stage3_emotion |-> "emotion_detect", stage4_segment_detect |-> "segment_detect",
     stage5_translate |-> "translate", stage6_tts |-> "tts",
     stage7_world |-> "prosody_transfer", stage8_reconstruct |-> "reconstruct",
     stage9_lipsync |-> "lip_sync"]

\* run_pipeline logs "[stage:start] s" and "[stage:end] s" for every stage:
\* log line k (from 1) belongs to stage (k + 1) \div 2 and starts it when odd
LogCount == 2 * Len(STAGE_ORDER)
LogStage(k) == STAGE_ORDER[(k + 1) \div 2]
IsStageStart(k) == k % 2 = 1

STAGE_INPUT_KEYS ==
    [stage1_preprocess |-> {"source_path", "target_language", "voice_map"},
     stage2_diarize |-> {"vocals", "segments"},
     stage3_emotion |-> {"vocals", "segments"},
     stage4_segment_detect |-> {"vocals", "segments"},
     stage5_translate |-> {"segments", "target_language"},
     stage6_tts |-> {"segments", "vocals"},
     stage7_world |-> {"segments", "tts_segments", "vocals"},
     stage8_reconstruct |-> {"segments", "world_segments", "audio_raw", "no_vocals",
                             "source_path"},
     stage9_lipsync |-> {"dubbed_video_raw"}]

STAGE_OUTPUT_KEYS ==
    [stage1_preprocess |-> {"audio_raw", "vocals", "no_vocals", "language", "segments"},
     stage2_diarize |-> {"segments"},
     stage3_emotion |-> {"segments"},
     stage4_segment_detect |-> {"segments"},
     stage5_translate |-> {"segments"},
     stage6_tts |-> {"tts_segments"},
     stage7_world |-> {"world_segments"},
     stage8_reconstruct |-> {"dubbed_audio", "dubbed_video_raw"},
     stage9_lipsync |-> {"dubbed_video_final"}]

\* ctx as run_pipeline builds it, as the set of its keys that hold a value
\* other than None
InitialCtx == {"source_path", "output_dir", "target_language", "tts_route", "voice_map"}

\* str(exc) of what the worker's except branch catches; the missing keys of
\* a contract violation are kept as a set (the text joins them sorted), the
\* number after "tts_segment_failures:" as count
NoError == [kind |-> "", stage |-> "", when |-> "", missing |-> {}, count |-> 0]
OtherError(kind) == [NoError EXCEPT !.kind = kind]

\* validate_stage_contract: the error it raises, NoError when it returns
validate_stage_contract(stage_name, ctx, when) ==
    LET required == IF when = "before" THEN STAGE_INPUT_KEYS[stage_name]
                    ELSE STAGE_OUTPUT_KEYS[stage_name]
        missing == {key \in required : key \notin ctx}
    IN IF missing # {}
       THEN [NoError EXCEPT !.kind = "stage_contract_violation", !.stage = stage_name,
                            !.when = when, !.missing = missing]
       ELSE NoError

\* what a stage function may leave in ctx: it writes its outputs, or all but
\* one of them (absent or None), or writes them and sets one of its other
\* inputs to None
StageEffects(stage_name) ==
    LET out == STAGE_OUTPUT_KEYS[stage_name]
        inp == STAGE_INPUT_KEYS[stage_name]
    IN {[written |-> out, nulled |-> {}]}
       \cup {[written |-> out \ {key}, nulled |-> {key}] : key \in out}
       \cup {[written |-> out, nulled |-> {key}] : key \in inp \ out}

MaxFailures == 2             \* segments stage6_tts may fail to synthesise

\* advanced.segment_failure_policy of a stored job: create_dubbing_job_v2
\* rejects every other value
segment_failure_policy == "hard_fail"

\* stage6_tts.run: the length of the failures list it leaves in
\* ctx["synthesis_failures"]; the other stages leave the key unset
SynthesisFailureCounts(stage_name) ==
    IF stage_name = "stage6_tts" THEN 0..MaxFailures ELSE {0}

\* set_stage of the worker: a running last entry of stage_timeline is
\* completed and a running entry for the stage is appended
set_stage(stage_timeline, stage_name) ==
    LET n == Len(stage_timeline)
        closed == IF n > 0 /\ stage_timeline[n].status = "running"
                  THEN [stage_timeline EXCEPT ![n].status = "completed"]
                  ELSE stage_timeline
    IN Append(closed, [stage |-> stage_name, status |-> "running"])

\* close_stage of the worker: the active stage, the last entry while it is
\* running, gets the status; nothing happens when no stage is active
close_stage(stage_timeline, status) ==
    LET n == Len(stage_timeline)
    IN IF n > 0 /\ stage_timeline[n].status = "running"
       THEN [stage_timeline EXCEPT ![n].status = status]
       ELSE stage_timeline

\* the record stored by create_dubbing_job_v2
NewJob ==
    [status |-> "queued", stage |-> "queued", cancelRequested |-> FALSE, error |-> NoError]

\* the worker's locals: stage_timeline is the list the job record shows as
\* stageTimeline, failures the length of ctx["synthesis_failures"], exit the
\* branch the worker left through
NewWorker ==
    [pc |-> "start", logged |-> 0, ctx |-> {}, ran |-> FALSE, stage_timeline |-> << >>,
     failures |-> 0, exit |-> ""]

\* the except branch of _run_dubbing_job_v2 on an error other than
\* "cancelled": the active stage is closed as failed, the job fails
FailJob(error, locals) ==
    /\ job' = [job EXCEPT !.status = "failed", !.stage = "failed", !.error = error]
    /\ worker' = [locals EXCEPT !.pc = "exited", !.exit = "failed",
                     !.stage_timeline = close_stage(locals.stage_timeline, "failed")]

\* the except branch on RuntimeError("cancelled"), raised by
\* _pipeline_logger: the active stage is closed as failed, the job is
\* cancelled
CancelJob(staged, locals) ==
    /\ job' = [staged EXCEPT !.status = "cancelled", !.stage = "cancelled"]
    /\ worker' = [locals EXCEPT !.pc = "exited", !.exit = "cancelled",
                     !.stage_timeline = close_stage(locals.stage_timeline, "failed")]

\* _run_dubbing_job_v2 begins: status running, stage preflight
WorkerStart ==
    /\ worker.pc = "start"
    /\ job' = [job EXCEPT !.status = "running", !.stage = "preflight"]
    /\ worker' = [worker EXCEPT !.pc = "preflight"]

\* run_strict_preflight reports ok, reports a failure (the job fails with
\* stage preflight and the worker returns) or raises (the except branch)
Preflight ==
    /\ worker.pc = "preflight"
    /\ \E outcome \in {"ok", "not_ok", "raises"} :
          IF outcome = "ok"
          THEN /\ worker' = [worker EXCEPT !.pc = "pipeline", !.ctx = InitialCtx]
               /\ UNCHANGED job
          ELSE /\ worker' = [worker EXCEPT !.pc = "exited", !.exit = "preflight"]
               /\ job' = [job EXCEPT !.status = "failed",
                                     !.stage = IF outcome = "not_ok" THEN "preflight"
                                               ELSE "failed",
                                     !.error = OtherError("preflight")]

\* run_pipeline logs its next line: _pipeline_logger sets the stage on a
\* "[stage:start]" line and closes it as completed on a "[stage:end]" line,
\* then raises "cancelled" when cancelRequested is set, which the except
\* branch turns into status cancelled.
\* A "[stage:start]" line comes after the stage's "before" contract, whose
\* violation reaches the except branch as any other error: status failed,
\* error the violation.  A "[stage:end]" line comes after the stage has run.
PipelineLog ==
    /\ worker.pc = "pipeline"
    /\ worker.logged < LogCount
    /\ LET k == worker.logged + 1
           staged == IF IsStageStart(k)
                     THEN [job EXCEPT !.stage = stage_map[LogStage(k)]]
                     ELSE job
           timeline == IF IsStageStart(k)
                       THEN set_stage(worker.stage_timeline, stage_map[LogStage(k)])
                       ELSE close_stage(worker.stage_timeline, "completed")
           logged == [worker EXCEPT !.logged = k, !.ran = FALSE,
                                    !.stage_timeline = timeline]
           violation == IF IsStageStart(k)
                        THEN validate_stage_contract(LogStage(k), worker.ctx, "before")
                        ELSE NoError
       IN /\ IsStageStart(k) \/ worker.ran
          /\ IF violation # NoError
             THEN FailJob(violation, worker)
             ELSE IF job.cancelRequested
             THEN CancelJob(staged, logged)
             ELSE /\ job' = staged
                  /\ worker' = logged

\* the running stage function logs a line of its own while cancelRequested
\* is set: _pipeline_logger raises "cancelled"; a handler inside the stage
\* that catches it logs again, which raises it again
StageLogs ==
    /\ worker.pc = "pipeline"
    /\ worker.logged > 0
    /\ IsStageStart(worker.logged)
    /\ ~worker.ran
    /\ job.cancelRequested
    /\ CancelJob(job, worker)

\* the stage whose start was logged runs and returns, then its "after"
\* contract is checked; stage6_tts raises "tts_segment_failures:<count>"
\* itself when its failures list is not empty
StageRuns ==
    /\ worker.pc = "pipeline"
    /\ worker.logged > 0
    /\ IsStageStart(worker.logged)
    /\ ~worker.ran
    /\ \E effect \in StageEffects(LogStage(worker.logged)),
          failures \in SynthesisFailureCounts(LogStage(worker.logged)) :
          LET ctx == (worker.ctx \ effect.nulled) \cup effect.written
              violation == validate_stage_contract(LogStage(worker.logged), ctx, "after")
          IN IF failures > 0
             THEN FailJob([OtherError("tts_segment_failures") EXCEPT !.count = failures],
                          [worker EXCEPT !.ctx = ctx, !.failures = failures])
             ELSE IF violation # NoError
             THEN FailJob(violation, [worker EXCEPT !.ctx = ctx])
             ELSE /\ UNCHANGED job
                  /\ worker' = [worker EXCEPT !.ctx = ctx, !.ran = TRUE]

\* a stage or the checks on the pipeline's result raise: the except branch
\* sets status failed
PipelineFails ==
    /\ worker.pc = "pipeline"
    /\ FailJob(OtherError("stage"), worker)

\* run_pipeline returned: the last stage is closed, the result's
\* synthesis_failures are read, a non-empty list raises under hard_fail,
\* otherwise the report is written and the status is completed
WorkerComplete ==
    /\ worker.pc = "pipeline"
    /\ worker.logged = LogCount
    /\ IF worker.failures > 0 /\ segment_failure_policy = "hard_fail"
       THEN FailJob([OtherError("tts_segment_failures") EXCEPT !.count = worker.failures],
                    [worker EXCEPT !.stage_timeline =
                                       close_stage(worker.stage_timeline, "completed")])
       ELSE /\ job' = [job EXCEPT !.status = "completed", !.stage = "completed"]
            /\ worker' = [worker EXCEPT !.pc = "exited", !.exit = "completed",
                             !.stage_timeline =
                                 close_stage(worker.stage_timeline, "completed")]

\* POST /dubbing/jobs/{job_id}/cancel
Cancel ==
    /\ job' = [job EXCEPT !.cancelRequested = TRUE,
                          !.status = "cancelling",
                          !.stage = "cancelling"]
    /\ UNCHANGED worker

(***************************************************************************)
(* AI Ops guardian: the admission middleware, the action endpoint, the     *)
(* approval decision endpoint and the scan.  AI_OPS_STATE is read and      *)
(* written under AI_OPS_LOCK; the middleware runs its admission check and  *)
(* _ai_ops_request_started without yielding in between.                    *)
(***************************************************************************)
MaxInFlight == 4             \* requests in flight at once
MaxApprovals == 1            \* approval records created in one run
MaxOpsElapsedMs == 5000      \* how far the guardian's clock runs

VF_AI_OPS_CONCURRENCY_SOFT_LIMIT == 2
VF_AI_OPS_CONCURRENCY_HARD_LIMIT == 3
VF_AI_OPS_AUTOFIX_COOLDOWN_MS == 30000
OpsStartMs == 30000
OpsTickMs == 5000
MinSheddingMs == 5000
MaxSheddingMs == 300000
DefaultSheddingMs == 30000

_AI_OPS_VALID_MODES == {"observe", "enforce", "manual"}
AI_OPS_MINOR_ACTIONS == {"restart_runtime", "refresh_gemini_pool", "enable_soft_shedding"}
AI_OPS_MAJOR_ACTIONS == {"restart_all_runtimes", "set_maintenance_mode"}
OpsActions == AI_OPS_MINOR_ACTIONS \cup AI_OPS_MAJOR_ACTIONS

\* the callers: the uid of the request and the adminToken it carries
OpsUids == {"admin", "user"}
OpsTokens == {"", "good", "bad"}
OpsCallers == [uid : OpsUids, adminToken : OpsTokens]
\* the deployments: allowlist and token configured or left empty
OpsConfigs ==
    [mode : _AI_OPS_VALID_MODES, approver_uids : {{}, {"admin"}},
     approval_token : {"", "good"}, autofix_minor : BOOLEAN]

\* the payloads an action is sent with: enabled for set_maintenance_mode,
\* durationMs for enable_soft_shedding (0 stands for a payload without it)
OpsPayloads(action) ==
    IF action = "set_maintenance_mode" THEN {"enabled", "disabled"}
    ELSE IF action = "enable_soft_shedding" THEN {"default", "short"}
    ELSE {"none"}

_ai_ops_action_severity(action) ==
    IF action \in AI_OPS_MINOR_ACTIONS THEN "minor" ELSE "major"

\* variant of the limit check that rejects only above the hard limit
hard_limit_reached_above(in_flight) == in_flight > VF_AI_OPS_CONCURRENCY_HARD_LIMIT

hard_limit_reached(in_flight) == in_flight >= VF_AI_OPS_CONCURRENCY_HARD_LIMIT

\* a request path, as the sequence of its segments
AI_OPS_CONCURRENCY_EXEMPT_PATHS ==
    {<<"health">>, <<"system", "version">>, <<"ops", "guardian", "status">>,
     <<"ops", "guardian", "scan">>, <<"ops", "guardian", "approvals">>}
\* the paths of the requests: the listed ones, a guardian endpoint that is
\* not listed, the guardian prefix without an endpoint, the docs, an
\* endpoint that does work
OpsPaths ==
    AI_OPS_CONCURRENCY_EXEMPT_PATHS
    \cup {<<"ops", "guardian", "actions">>, <<"ops", "guardian">>, <<"docs">>,
          <<"tts", "synthesize">>}

\* variant of the exemption that knows the prefixes only
_ai_ops_is_exempt_path_prefixes_only(path) ==
    \/ Len(path) >= 3 /\ path[1] = "ops" /\ path[2] = "guardian"
    \/ Len(path) >= 1 /\ path[1] = "docs"

\* _ai_ops_is_exempt_path: a listed path, or one that starts with
\* "/ops/guardian/" or with "/docs"
_ai_ops_is_exempt_path(path) ==
    \/ path \in AI_OPS_CONCURRENCY_EXEMPT_PATHS
    \/ Len(path) >= 3 /\ path[1] = "ops" /\ path[2] = "guardian"
    \/ Len(path) >= 1 /\ path[1] = "docs"

\* variant of the admission check that applies the limits in every mode
_ai_ops_throttle_payload_any_mode(exempt, config, state, now_ms) ==
    IF exempt THEN ""
    ELSE IF state.maintenanceMode THEN "maintenance_mode"
    ELSE IF hard_limit_reached(state.inFlightTotal) THEN "hard_concurrency_limit"
    ELSE IF /\ state.temporarySheddingUntilMs > now_ms
            /\ state.inFlightTotal >= VF_AI_OPS_CONCURRENCY_SOFT_LIMIT
         THEN "soft_shedding"
    ELSE ""

\* _ai_ops_throttle_payload(path): the reason of the 503, "" for None;
\* exempt is what _ai_ops_is_exempt_path says of the path
_ai_ops_throttle_payload(exempt, config, state, now_ms) ==
    IF exempt THEN ""
    ELSE IF state.maintenanceMode THEN "maintenance_mode"
    ELSE IF config.mode # "enforce" THEN ""
    ELSE IF hard_limit_reached(state.inFlightTotal) THEN "hard_concurrency_limit"
    ELSE IF /\ state.temporarySheddingUntilMs > now_ms
            /\ state.inFlightTotal >= VF_AI_OPS_CONCURRENCY_SOFT_LIMIT
         THEN "soft_shedding"
    ELSE ""

NoOpsTrace ==
    [op |-> "none", path |-> << >>, exempt |-> FALSE, in_flight |-> 0, maintenance |-> FALSE,
     reason |-> "", action |-> "", payload |-> "", caller |-> [uid |-> "", adminToken |-> ""],
     state_before |-> [maintenanceMode |-> FALSE, temporarySheddingUntilMs |-> 0,
                       inFlightTotal |-> 0,
                       lastAutoFixAtMs |-> [a \in AI_OPS_MINOR_ACTIONS |-> 0]],
     approvals_before |-> << >>]

\* _ai_ops_observer_middleware up to call_next: the admission check, then
\* the rejection or _ai_ops_request_started
RequestArrives(path) ==
    /\ ops_state.inFlightTotal < MaxInFlight
    /\ LET exempt == _ai_ops_is_exempt_path(path)
           reason == _ai_ops_throttle_payload(exempt, ops_config, ops_state, ops_now)
       IN /\ ops_state' = IF reason = ""
                          THEN [ops_state EXCEPT !.inFlightTotal = Max(0, @ + 1)]
                          ELSE ops_state
          /\ ops_trace' = [NoOpsTrace EXCEPT !.op = "admission", !.path = path,
                                             !.exempt = exempt,
                                             !.in_flight = ops_state.inFlightTotal,
                                             !.maintenance = ops_state.maintenanceMode,
                                             !.reason = reason,
                                             !.state_before = ops_state]
    /\ executed' = {}
    /\ UNCHANGED <<ops_config, ops_now, approvals, approval_order>>

\* the middleware's finally: _ai_ops_request_finished of an admitted request
RequestFinishes ==
    /\ ops_state.inFlightTotal > 0
    /\ ops_state' = [ops_state EXCEPT !.inFlightTotal = Max(0, @ - 1)]
    /\ ops_trace' = [NoOpsTrace EXCEPT !.op = "finished", !.state_before = ops_state]
    /\ executed' = {}
    /\ UNCHANGED <<ops_config, ops_now, approvals, approval_order>>

\* the state change of _ai_ops_execute_action; the runtime restarts and the
\* pool refresh touch nothing of AI_OPS_STATE
execute_state(state, action, payload, now_ms) ==
    IF action = "enable_soft_shedding"
    THEN LET requested == IF payload = "short" THEN 0 ELSE DefaultSheddingMs
             duration_ms == Max(MinSheddingMs, Min(requested, MaxSheddingMs))
         IN [state EXCEPT !.temporarySheddingUntilMs = Max(@, now_ms + duration_ms)]
    ELSE IF action = "set_maintenance_mode"
    THEN [state EXCEPT !.maintenanceMode = (payload # "disabled")]
    ELSE state

Execution(action, payload, initiator) ==
    [action |-> action, payload |-> payload, initiator |-> initiator]

\* _ai_ops_execute_action of an action that writes AI_OPS_STATE, whichever
\* endpoint runs it
OpsStateActions == {"enable_soft_shedding", "set_maintenance_mode"}
OpsExecute(action, payload) ==
    /\ ops_state' = execute_state(ops_state, action, payload, ops_now)
    /\ executed' = {Execution(action, payload, "system")}
    /\ ops_trace' = [NoOpsTrace EXCEPT !.op = "execute", !.action = action,
                                       !.payload = payload,
                                       !.state_before = ops_state]
    /\ UNCHANGED <<ops_config, ops_now, approvals, approval_order>>

OpsTick ==
    /\ ops_now + OpsTickMs <= OpsStartMs + MaxOpsElapsedMs
    /\ ops_now' = ops_now + OpsTickMs
    /\ UNCHANGED <<ops_config, ops_state, approvals, approval_order, executed, ops_trace>>

(***************************************************************************)
(* The middleware, request by request.  A request runs the admission check *)
(* and _ai_ops_request_started in one step of the event loop, awaits its   *)
(* handler, and runs _ai_ops_request_finished in the finally clause,       *)
(* whether the handler returned or raised.                                 *)
(***************************************************************************)
\* one request more than the hard limit admits
HttpRequests == 1..(VF_AI_OPS_CONCURRENCY_HARD_LIMIT + 1)
NewRequest == [pc |-> "new", exempt |-> FALSE, reason |-> ""]

\* _ai_ops_request_started(path), as far as AI_OPS_STATE goes
_ai_ops_request_started(state, exempt) ==
    [state EXCEPT !.inFlightTotal = Max(0, @ + 1)]

\* variant of the end that leaves the count of a failed request
_ai_ops_request_finished_unless_raised(state, raised) ==
    IF raised THEN state ELSE [state EXCEPT !.inFlightTotal = Max(0, @ - 1)]

\* _ai_ops_request_finished(path, ...), as far as AI_OPS_STATE goes; raised
\* tells a handler that raised (status 500) from one that returned
_ai_ops_request_finished(state, raised) ==
    [state EXCEPT !.inFlightTotal = Max(0, @ - 1)]

\* the middleware up to `await call_next(request)`; the requests are numbered
\* in the order of their arrival
MiddlewareEnter(r, path) ==
    /\ http_requests[r].pc = "new"
    /\ \A q \in HttpRequests : q < r => http_requests[q].pc # "new"
    /\ LET exempt == _ai_ops_is_exempt_path(path)
           reason == _ai_ops_throttle_payload(exempt, ops_config, ops_state, ops_now)
       IN IF reason # ""
          THEN /\ http_requests' = [http_requests EXCEPT ![r] =
                      [pc |-> "rejected", exempt |-> exempt, reason |-> reason]]
               /\ UNCHANGED ops_state
          ELSE /\ http_requests' = [http_requests EXCEPT ![r] =
                      [pc |-> "handling", exempt |-> exempt, reason |-> ""]]
               /\ ops_state' = _ai_ops_request_started(ops_state, exempt)
    /\ executed' = {}
    /\ ops_trace' = [NoOpsTrace EXCEPT !.op = "middleware"]
    /\ UNCHANGED <<ops_config, ops_now, approvals, approval_order>>

\* call_next returns or raises, and the finally clause runs
MiddlewareExit(r, raised) ==
    /\ http_requests[r].pc = "handling"
    /\ http_requests' = [http_requests EXCEPT ![r].pc =
                            IF raised THEN "raised" ELSE "responded"]
    /\ ops_state' = _ai_ops_request_finished(ops_state, raised)
    /\ executed' = {}
    /\ ops_trace' = [NoOpsTrace EXCEPT !.op = "middleware"]
    /\ UNCHANGED <<ops_config, ops_now, approvals, approval_order>>

InFlight == {r \in HttpRequests : http_requests[r].pc = "handling"}
InFlightLimited == {r \in InFlight : ~http_requests[r].exempt}

\* C36: the guardian's inFlightTotal equals the number of requests that were
\* admitted by the middleware and have not yet finished: one more for each
\* admitted request, one less when it completes, by a response or by an
\* exception, unchanged by a rejected request, and never negative
C36_InFlightTotalCountsAdmittedUnfinished ==
    /\ ops_state.inFlightTotal = Cardinality(InFlight)
    /\ ops_state.inFlightTotal >= 0

\* requests were rejected, one failed, one responded, and others are in flight
C36_Witness ==
    /\ ops_state.inFlightTotal = 1
    /\ \E r \in HttpRequests : http_requests[r].pc = "rejected"
    /\ \E r \in HttpRequests : http_requests[r].pc = "raised"
    /\ \E r \in HttpRequests : http_requests[r].pc = "responded"

\* C37: in enforce mode, under any interleaving of concurrent requests, the
\* number of admitted requests in flight on paths that are not exempt never
\* exceeds the hard limit
C37_LimitedInFlightWithinHardLimit ==
    ops_config.mode = "enforce" =>
        Cardinality(InFlightLimited) <= VF_AI_OPS_CONCURRENCY_HARD_LIMIT

\* the hard limit is reached and a further request was refused for it
C37_Witness ==
    /\ ops_config.mode = "enforce"
    /\ Cardinality(InFlightLimited) = VF_AI_OPS_CONCURRENCY_HARD_LIMIT
    /\ \E r \in HttpRequests : http_requests[r].reason = "hard_concurrency_limit"

\* variant of the authorization that accepts an allowlisted uid without
\* comparing the token
_ai_ops_admin_authorized_uid_only(config, caller) ==
    /\ config.approver_uids # {}
    /\ caller.uid \in config.approver_uids

\* _ai_ops_admin_authorized(request, admin_token)
_ai_ops_admin_authorized(config, caller) ==
    IF config.approver_uids = {} THEN FALSE
    ELSE IF caller.uid \notin config.approver_uids THEN FALSE
    ELSE IF config.approval_token = "" THEN FALSE
    ELSE IF caller.adminToken # config.approval_token THEN FALSE
    ELSE TRUE

\* _ai_ops_find_pending_approval_locked: the pending approval of this action
\* and payload, 0 when there is none
find_pending_approval(apps, action, payload) ==
    LET found == {i \in 1..Len(apps) : /\ apps[i].status = "pending"
                                       /\ apps[i].action = action
                                       /\ apps[i].payload = payload}
    IN IF found = {} THEN 0 ELSE CHOOSE i \in found : \A j \in found : i <= j

VF_AI_OPS_MAX_PENDING_APPROVALS == 5

\* _ai_ops_trim_list_locked: the oldest items beyond max_items are deleted
_ai_ops_trim_list_locked(items, max_items) ==
    LET overflow == Len(items) - Max(1, max_items)
    IN IF overflow > 0 THEN SubSeq(items, overflow + 1, Len(items)) ELSE items

\* _ai_ops_create_approval: the existing pending approval is returned, or a
\* new one is stored and its id appended to the order, which is trimmed; the
\* new approval is taken back when the trim has dropped its id
create_approval(apps, order, action, payload, requested_by) ==
    IF find_pending_approval(apps, action, payload) # 0
    THEN [approvals |-> apps, approvalOrder |-> order]
    ELSE LET approval_id == Len(apps) + 1
             approval == [action |-> action, payload |-> payload, status |-> "pending",
                          requestedBy |-> requested_by]
             trimmed == _ai_ops_trim_list_locked(Append(order, approval_id),
                                                 VF_AI_OPS_MAX_PENDING_APPROVALS)
         IN [approvals |-> IF \E i \in 1..Len(trimmed) : trimmed[i] = approval_id
                           THEN Append(apps, approval) ELSE apps,
             approvalOrder |-> trimmed]

CanCreateApproval(apps, action, payload) ==
    find_pending_approval(apps, action, payload) # 0 \/ Len(apps) < MaxApprovals

\* POST /ops/guardian/actions
GuardianAction(caller, action, payload) ==
    /\ payload \in OpsPayloads(action)
    /\ LET severity == _ai_ops_action_severity(action)
           authorized == _ai_ops_admin_authorized(ops_config, caller)
           runs == severity # "major" \/ authorized
       IN /\ ~runs => CanCreateApproval(approvals, action, payload)
          /\ IF runs
             THEN /\ ops_state' = execute_state(ops_state, action, payload, ops_now)
                  /\ executed' = {Execution(action, payload,
                                             IF severity = "major" THEN "admin"
                                             ELSE "user")}
                  /\ UNCHANGED <<approvals, approval_order>>
             ELSE /\ LET created == create_approval(approvals, approval_order, action,
                                                    payload, caller.uid)
                     IN /\ approvals' = created.approvals
                        /\ approval_order' = created.approvalOrder
                  /\ executed' = {}
                  /\ UNCHANGED ops_state
          /\ ops_trace' = [NoOpsTrace EXCEPT !.op = "action", !.action = action,
                                             !.payload = payload, !.caller = caller,
                                             !.state_before = ops_state,
                                             !.approvals_before = approvals]
    /\ UNCHANGED <<ops_config, ops_now>>

\* POST /ops/guardian/approvals/{approval_id}/decision; `ok` is the outcome
\* of the execution
ApprovalDecision(caller, i, approved, ok) ==
    /\ i \in 1..Len(approvals)
    /\ _ai_ops_admin_authorized(ops_config, caller)
    /\ approvals[i].status = "pending"
    /\ IF ~approved
       THEN /\ approvals' = [approvals EXCEPT ![i].status = "rejected"]
            /\ executed' = {}
            /\ UNCHANGED ops_state
       ELSE /\ ops_state' = execute_state(ops_state, approvals[i].action,
                                          approvals[i].payload, ops_now)
            /\ executed' = {Execution(approvals[i].action, approvals[i].payload, "admin")}
            /\ approvals' = [approvals EXCEPT ![i].status =
                                IF ok THEN "executed" ELSE "failed"]
    /\ ops_trace' = [NoOpsTrace EXCEPT !.op = "decision", !.caller = caller,
                                       !.action = approvals[i].action,
                                       !.payload = approvals[i].payload,
                                       !.state_before = ops_state,
                                       !.approvals_before = approvals]
    /\ UNCHANGED <<ops_config, ops_now, approval_order>>

(***************************************************************************)
(* The decision endpoint, thread by thread.  The endpoint runs in the      *)
(* server's thread pool, and takes AI_OPS_LOCK three times: to check that  *)
(* the approval is pending and note who decides, to read the approval      *)
(* before the execution, and to store the outcome (or, for a rejection, to *)
(* store the rejection).  The action runs outside the lock.                *)
(***************************************************************************)
DecisionThreads == {1, 2}
IdleDecision == [pc |-> "idle", id |-> 0, approved |-> FALSE, ok |-> FALSE]
\* runs: the executions made for approvals, each with the approval's status
\* when it started
NoDecisions == [threads |-> [t \in DecisionThreads |-> IdleDecision], runs |-> << >>]

\* the handler up to the end of its first `with AI_OPS_LOCK`: 403, 404 and
\* 409 end the request
DecisionCheck(t, caller, i, approved) ==
    /\ decisions.threads[t].pc = "idle"
    /\ LET passes == /\ _ai_ops_admin_authorized(ops_config, caller)
                     /\ i \in 1..Len(approvals)
                     /\ approvals[i].status = "pending"
       IN decisions' = [decisions EXCEPT !.threads[t] =
                           [pc |-> IF passes THEN "checked" ELSE "refused",
                            id |-> i, approved |-> approved, ok |-> FALSE]]
    /\ UNCHANGED <<opsVars>>

\* `if not payload.approved`: the approval is marked rejected
DecisionReject(t) ==
    /\ decisions.threads[t].pc = "checked"
    /\ ~decisions.threads[t].approved
    /\ approvals' = [approvals EXCEPT ![decisions.threads[t].id].status = "rejected"]
    /\ decisions' = [decisions EXCEPT !.threads[t].pc = "done"]
    /\ UNCHANGED <<ops_config, ops_now, ops_state, executed, ops_trace, approval_order>>

\* _ai_ops_get_approval and _ai_ops_execute_action; ok is the outcome
DecisionExecute(t, ok) ==
    /\ decisions.threads[t].pc = "checked"
    /\ decisions.threads[t].approved
    /\ LET approval == approvals[decisions.threads[t].id]
       IN /\ ops_state' = execute_state(ops_state, approval.action, approval.payload, ops_now)
          /\ executed' = {Execution(approval.action, approval.payload, "admin")}
          /\ decisions' = [decisions EXCEPT
                              !.threads[t].pc = "executed", !.threads[t].ok = ok,
                              !.runs = Append(@, [id |-> decisions.threads[t].id,
                                                  status |-> approval.status])]
    /\ UNCHANGED <<ops_config, ops_now, approvals, ops_trace, approval_order>>

\* the last `with AI_OPS_LOCK`: the outcome is stored
DecisionStore(t) ==
    /\ decisions.threads[t].pc = "executed"
    /\ approvals' = [approvals EXCEPT ![decisions.threads[t].id].status =
                        IF decisions.threads[t].ok THEN "executed" ELSE "failed"]
    /\ decisions' = [decisions EXCEPT !.threads[t].pc = "done"]
    /\ UNCHANGED <<ops_config, ops_now, ops_state, executed, ops_trace, approval_order>>

RunsOf(i) == {k \in 1..Len(decisions.runs) : decisions.runs[k].id = i}

\* C38: each approval's action is executed at most once and only while the
\* approval is pending; of decisions made side by side on one approval at
\* most one executes; a rejected approval is never executed; an approved
\* pending approval ends executed or failed
C38_ApprovalExecutedAtMostOnceWhilePending ==
    /\ \A i \in 1..Len(approvals) :
          /\ Cardinality(RunsOf(i)) <= 1
          /\ \A k \in RunsOf(i) : decisions.runs[k].status = "pending"
          /\ approvals[i].status = "rejected" => RunsOf(i) = {}
    /\ \A t \in DecisionThreads :
          decisions.threads[t].pc = "done" /\ decisions.threads[t].approved
             => approvals[decisions.threads[t].id].status \in {"executed", "failed"}

(***************************************************************************)
(* POST /ops/guardian/scan.  The endpoint runs in the server's thread pool, *)
(* so scans run side by side; each takes AI_OPS_LOCK for one read or write  *)
(* at a time: to create an approval, to read the last auto-fix time, to     *)
(* execute an action and to mark the auto-fix.                              *)
(***************************************************************************)
MaxScanApprovals == 6        \* approvals the scans create in one run
MaxAutoFixes == 2            \* auto-executions the scans make in one run

ScanThreads == {1, 2}
\* how many runtimes the status reports offline
OfflineCounts == {0, 1, 2}
IdleScan == [pc |-> "idle", issues |-> << >>, autoFixMinor |-> FALSE, uid |-> ""]

\* _ai_ops_detect_issues for `offline` runtimes down and the in-flight count:
\* the issues that carry an action, in the order they are appended
detect_issues(offline, in_flight) ==
    (IF offline = 1
     THEN <<[severity |-> "minor", action |-> "restart_runtime", payload |-> "none"]>>
     ELSE IF offline > 1
     THEN <<[severity |-> "major", action |-> "restart_all_runtimes", payload |-> "none"]>>
     ELSE << >>)
    \o
    (IF in_flight >= VF_AI_OPS_CONCURRENCY_HARD_LIMIT
     THEN <<[severity |-> "major", action |-> "set_maintenance_mode", payload |-> "enabled"]>>
     ELSE IF in_flight >= VF_AI_OPS_CONCURRENCY_SOFT_LIMIT
     THEN <<[severity |-> "minor", action |-> "enable_soft_shedding", payload |-> "default"]>>
     ELSE << >>)

\* _ai_ops_autofix_allowed: the cooldown since the last marked auto-fix is over
_ai_ops_autofix_allowed(state, action, now_ms) ==
    now_ms - state.lastAutoFixAtMs[action] >= VF_AI_OPS_AUTOFIX_COOLDOWN_MS

\* ops_guardian_scan up to its loop: the status is built and its issues kept
ScanStart(t, uid, offline, autoFixMinor) ==
    /\ scans[t].pc = "idle"
    /\ \A u \in ScanThreads : u < t => scans[u].pc # "idle"
    /\ scans' = [scans EXCEPT ![t] = [pc |-> "loop",
                                      issues |-> detect_issues(offline,
                                                               ops_state.inFlightTotal),
                                      autoFixMinor |-> autoFixMinor, uid |-> uid]]
    /\ UNCHANGED <<opsVars, autofix_log>>

\* the loop's next issue up to the execution: a major issue gets an approval,
\* a minor one is skipped unless auto-fix is allowed and the cooldown is over
ScanIssue(t) ==
    /\ scans[t].pc = "loop"
    /\ scans[t].issues # << >>
    /\ LET issue == Head(scans[t].issues)
           next == [scans EXCEPT ![t].issues = Tail(@)]
           auto_fix_allowed == /\ scans[t].autoFixMinor
                               /\ ops_config.autofix_minor
                               /\ ops_config.mode # "manual"
           created == create_approval(approvals, approval_order, issue.action,
                                      issue.payload, scans[t].uid)
       IN IF issue.severity = "major"
          THEN /\ Len(created.approvals) <= MaxScanApprovals
               /\ approvals' = created.approvals
               /\ approval_order' = created.approvalOrder
               /\ scans' = next
               /\ UNCHANGED <<ops_config, ops_now, ops_state, executed, ops_trace>>
          ELSE /\ scans' = IF /\ auto_fix_allowed
                              /\ _ai_ops_autofix_allowed(ops_state, issue.action, ops_now)
                           THEN [scans EXCEPT ![t].pc = "execute"]
                           ELSE next
               /\ UNCHANGED opsVars
    /\ UNCHANGED autofix_log

\* _ai_ops_execute_action of the minor issue
ScanExecute(t) ==
    /\ scans[t].pc = "execute"
    /\ Len(autofix_log) < MaxAutoFixes
    /\ LET issue == Head(scans[t].issues)
       IN /\ ops_state' = execute_state(ops_state, issue.action, issue.payload, ops_now)
          /\ executed' = {Execution(issue.action, issue.payload, "scan")}
          /\ autofix_log' = Append(autofix_log,
                                   [action |-> issue.action, payload |-> issue.payload,
                                    at_ms |-> ops_now,
                                    autoFixMinor |-> scans[t].autoFixMinor])
    /\ scans' = [scans EXCEPT ![t].pc = "mark"]
    /\ UNCHANGED <<ops_config, ops_now, approvals, approval_order, ops_trace>>

\* _ai_ops_mark_autofix, then the loop goes on
ScanMark(t) ==
    /\ scans[t].pc = "mark"
    /\ ops_state' = [ops_state EXCEPT
                        !.lastAutoFixAtMs[Head(scans[t].issues).action] = ops_now]
    /\ scans' = [scans EXCEPT ![t].pc = "loop", ![t].issues = Tail(@)]
    /\ UNCHANGED <<ops_config, ops_now, approvals, approval_order, executed, ops_trace,
                   autofix_log>>

\* the loop is over: the final status is built and returned
ScanReturn(t) ==
    /\ scans[t].pc = "loop"
    /\ scans[t].issues = << >>
    /\ scans' = [scans EXCEPT ![t] = IdleScan]
    /\ UNCHANGED <<opsVars, autofix_log>>

(***************************************************************************)
(* Studio pair groups: _synthesize_studio_pair_groups runs one run_group   *)
(* task per speaker pair in a thread pool, splits each group's PCM into    *)
(* per-line chunks and reassembles the lines.  A PCM payload is modelled   *)
(* as its sequence of int16 samples; the samples a group's upstream call   *)
(* returns are told apart as <<groupIndex, position>>.                     *)
(***************************************************************************)
MaxLines == 3                \* lines of the line map
MaxSamples == 3              \* samples of a group's upstream audio

GEMINI_STUDIO_PAIR_GROUP_MAX_CONCURRENCY == 7
SilenceSamples == 240
PairSize == 2

Speakers == {"A", "B", "C"}
WordPatterns == {"even", "growing"}
KeyPoolSizes == {1, 2}
\* payload.multi_speaker_max_concurrency: absent, or any integer
RequestedConcurrencies ==
    {[given |-> FALSE, value |-> 0]} \cup {[given |-> TRUE, value |-> v] : v \in {0, 9}}

\* lineIndex of the k-th line of the normalized line map: ascending and
\* unique, not contiguous
LineIndexOf(k) == IF k = 1 THEN 0 ELSE k
\* words of the k-th line's text
LineWords(pattern, k) == IF pattern = "even" THEN 1 ELSE k

\* speakers in the order of their first line
RECURSIVE speaker_order(_)
speaker_order(speakers) ==
    IF speakers = << >> THEN << >>
    ELSE LET front == speaker_order(SubSeq(speakers, 1, Len(speakers) - 1))
             last == speakers[Len(speakers)]
         IN IF last \in SeqToSet(front) THEN front ELSE Append(front, last)

\* build_studio_pair_groups: group g (from 0) takes the speakers 2g+1 and
\* 2g+2 of the speaker order and every line of theirs, in line-map order
LinesOf(speakers, group_speakers) ==
    LET RECURSIVE pick(_)
        pick(k) == IF k > Len(speakers) THEN << >>
                   ELSE IF speakers[k] \in group_speakers
                   THEN <<k>> \o pick(k + 1)
                   ELSE pick(k + 1)
    IN pick(1)

build_studio_pair_groups(speakers) ==
    LET order == speaker_order(speakers)
        count == (Len(order) + PairSize - 1) \div PairSize
    IN [g \in 1..count |->
           LET group_speakers ==
                   {order[i] : i \in {j \in 1..Len(order) :
                                         (j - 1) \div PairSize = g - 1}}
           IN [groupIndex |-> g - 1, speakers |-> group_speakers,
               lines |-> LinesOf(speakers, group_speakers)]]

\* payload.multi_speaker_max_concurrency as _synthesize_text_to_wav passes it on
requested_pair_concurrency(requested) ==
    Max(1, Min(GEMINI_STUDIO_PAIR_GROUP_MAX_CONCURRENCY,
               IF requested.given THEN requested.value
               ELSE GEMINI_STUDIO_PAIR_GROUP_MAX_CONCURRENCY))

\* variant that does not count the key pool
effective_concurrency_without_pool(requested_concurrency, group_count, key_pool_size) ==
    Max(1, Min(Min(Max(1, requested_concurrency),
                   GEMINI_STUDIO_PAIR_GROUP_MAX_CONCURRENCY), group_count))

effective_concurrency(requested_concurrency, group_count, key_pool_size) ==
    Max(1, Min(Min(Max(1, requested_concurrency),
                   GEMINI_STUDIO_PAIR_GROUP_MAX_CONCURRENCY),
               Min(group_count, key_pool_size)))

\* int(round(a / b)) for a >= 0, b > 0: halves go to the even neighbour
RoundDiv(a, b) ==
    LET q == a \div b
        r == a % b
    IN IF 2 * r < b THEN q
       ELSE IF 2 * r > b THEN q + 1
       ELSE IF q % 2 = 0 THEN q ELSE q + 1

RECURSIVE SumSeq(_)
SumSeq(seq) == IF seq = << >> THEN 0 ELSE Head(seq) + SumSeq(Tail(seq))

\* the clamping both boundary loops apply: every boundary is at least one
\* past the previous one and leaves a sample for each boundary still to come
RECURSIVE clamp_boundaries(_, _, _, _)
clamp_boundaries(targets, idx, prev, total_samples) ==
    IF idx > Len(targets) THEN << >>
    ELSE LET remaining_boundaries == Len(targets) - (idx - 1)
             min_allowed == prev + 1
             max_allowed == Max(min_allowed, total_samples - remaining_boundaries)
             bounded == Max(min_allowed, Min(targets[idx], max_allowed))
         IN <<bounded>> \o clamp_boundaries(targets, idx + 1, bounded, total_samples)

\* _build_duration_boundaries(total_samples, weights, boundary_count)
build_duration_boundaries(total_samples, weights, boundary_count) ==
    IF total_samples <= 0 \/ boundary_count <= 0 THEN << >>
    ELSE LET safe_weights == [i \in 1..(boundary_count + 1) |->
                                 IF i <= Len(weights) THEN Max(1, weights[i]) ELSE 1]
             total_weight == SumSeq(safe_weights)
             targets == [i \in 1..boundary_count |->
                            RoundDiv(SumSeq(SubSeq(safe_weights, 1, i)) * total_samples,
                                     total_weight)]
         IN clamp_boundaries(targets, 1, 0, total_samples)

\* samples[start:end] of Python, start and end counted from 0
Slice(samples, start, end) ==
    SubSeq(samples, start + 1, Min(end, Len(samples)))

\* what _detect_pause_boundaries can return for these targets: nothing, or
\* one centre per target, each at least two past the one before and inside
\* the audio
PauseBoundaries(sample_count, boundary_count) ==
    {<< >>} \cup
    {b \in [1..boundary_count -> 2..(sample_count - 1)] :
        \A i \in 2..boundary_count : b[i] >= b[i - 1] + 2}

\* split_int16_pcm_for_lines(pcm_bytes, line_weights), given the pause
\* boundaries found: the chunks and whether pause boundaries were used
split_int16_pcm_for_lines(samples, line_weights, pause_boundaries) ==
    LET line_count == Max(1, Len(line_weights))
        sample_count == Len(samples)
    IN IF line_count = 1 \/ sample_count <= 0
       THEN [chunks |-> <<samples>>, pause |-> FALSE]
       ELSE IF sample_count <= line_count
       THEN [chunks |-> [idx \in 1..line_count |->
                            LET start == idx - 1
                                end == IF idx < line_count THEN start + 1
                                       ELSE Max(start, sample_count)
                            IN Slice(samples, start, end)],
             pause |-> FALSE]
       ELSE LET duration_boundaries ==
                    build_duration_boundaries(sample_count, line_weights, line_count - 1)
                use_pause_boundaries == Len(pause_boundaries) = line_count - 1
                boundaries == IF use_pause_boundaries THEN pause_boundaries
                              ELSE duration_boundaries
                normalized == clamp_boundaries(boundaries, 1, 0, sample_count)
                ends == Append(normalized, sample_count)
            IN [chunks |-> [idx \in 1..line_count |->
                               IF idx > Len(ends) THEN << >>
                               ELSE Slice(samples,
                                          IF idx = 1 THEN 0 ELSE ends[idx - 1],
                                          Max(ends[idx],
                                              IF idx = 1 THEN 0 ELSE ends[idx - 1]))],
                  pause |-> use_pause_boundaries]

\* the groups of the request and the bound of its thread pool
Groups == build_studio_pair_groups(grp_input.speakers)
GroupIds == 1..Len(Groups)
EffectiveConcurrency ==
    effective_concurrency(requested_pair_concurrency(grp_input.requested),
                          Len(Groups), grp_input.key_pool_size)
max_attempts == IF grp_input.retry_once THEN 2 ELSE 1
Running == {g \in GroupIds : grp_tasks[g].pc = "running"}

\* the audio the upstream call returns for group g: `count` samples
GroupSamples(g, count) == [i \in 1..count |-> <<Groups[g].groupIndex, i>>]
group_weights(g) ==
    [i \in 1..Len(Groups[g].lines) |->
        Max(1, LineWords(grp_input.pattern, Groups[g].lines[i]))]

SilenceChunk == [i \in 1..SilenceSamples |-> 0]

RECURSIVE Concat(_)
Concat(chunks) == IF chunks = << >> THEN << >> ELSE Head(chunks) \o Concat(Tail(chunks))

\* sorted(group_results, key=groupIndex)
SortByGroupIndex(results) ==
    [i \in 1..Len(results) |->
        CHOOSE r \in SeqToSet(results) :
            Cardinality({q \in SeqToSet(results) : q.groupIndex < r.groupIndex}) = i - 1]

\* line_audio_by_index after the loop over the results: line -> chunk
RECURSIVE line_audio(_, _)
line_audio(results, by_line) ==
    IF results = << >> THEN by_line
    ELSE LET result == Head(results)
             filled == [k \in (DOMAIN by_line) \cup SeqToSet(result.lines) |->
                           IF \E idx \in 1..Len(result.lines) : result.lines[idx] = k
                           THEN LET idx == CHOOSE i \in 1..Len(result.lines) :
                                               /\ result.lines[i] = k
                                               /\ \A j \in 1..Len(result.lines) :
                                                     result.lines[j] = k => j <= i
                                IN IF idx <= Len(result.lineChunks)
                                   THEN [pcm |-> result.lineChunks[idx],
                                         splitMode |-> result.splitMode]
                                   ELSE [pcm |-> << >>, splitMode |-> result.splitMode]
                           ELSE by_line[k]]
         IN line_audio(Tail(results), filled)

LineChunk(line_index, pcm, split_mode, silence_fallback) ==
    [lineIndex |-> line_index, pcmBytes |-> pcm, splitMode |-> split_mode,
     silenceFallback |-> silence_fallback]

\* variant of the chunk of one line without the silence fallback
ordered_line_chunk_without_silence(k, by_line) ==
    LineChunk(LineIndexOf(k),
              IF k \in DOMAIN by_line THEN by_line[k].pcm ELSE << >>,
              IF k \in DOMAIN by_line THEN by_line[k].splitMode ELSE "duration",
              FALSE)

\* the chunk of line k of the line map: its audio, or silence where the
\* line got no audio
ordered_line_chunk(k, by_line) ==
    LET chunk == IF k \in DOMAIN by_line THEN by_line[k].pcm ELSE << >>
    IN IF chunk = << >>
       THEN LineChunk(LineIndexOf(k), SilenceChunk, "silence", TRUE)
       ELSE LineChunk(LineIndexOf(k), chunk, by_line[k].splitMode, FALSE)

\* variant of the assembly that emits the lines group by group, in the
\* order the groups completed
assemble_in_completion_order(results, line_count) ==
    LET RECURSIVE emit(_)
        emit(rs) ==
            IF rs = << >> THEN << >>
            ELSE [idx \in 1..Len(Head(rs).lines) |->
                     LET chunk == IF idx <= Len(Head(rs).lineChunks)
                                  THEN Head(rs).lineChunks[idx] ELSE << >>
                     IN IF chunk = << >>
                        THEN LineChunk(LineIndexOf(Head(rs).lines[idx]), SilenceChunk,
                                       "silence", TRUE)
                        ELSE LineChunk(LineIndexOf(Head(rs).lines[idx]), chunk,
                                       Head(rs).splitMode, FALSE)]
                 \o emit(Tail(rs))
    IN emit(results)

\* ordered_line_chunks: one chunk per line of the line map, in its order
assemble(results, line_count) ==
    LET by_line == line_audio(SortByGroupIndex(results), << >>)
    IN [k \in 1..line_count |-> ordered_line_chunk(k, by_line)]

NoGroupOutput ==
    [status |-> "running", lineChunks |-> << >>, audio |-> << >>, concurrencyUsed |-> 0]

\* a pool thread takes the next submitted task
GroupStart(g) ==
    /\ grp_output.status = "running"
    /\ grp_tasks[g].pc = "queued"
    /\ \A h \in GroupIds : grp_tasks[h].pc = "queued" => g <= h
    /\ Cardinality(Running) < EffectiveConcurrency
    /\ grp_tasks' = [grp_tasks EXCEPT ![g] = [pc |-> "running", attempt |-> 1]]
    /\ UNCHANGED <<grp_input, group_results, grp_output>>

\* run_group's attempt returns audio, which is split into the group's lines;
\* the future completes and its result is appended
GroupSucceeds(g, count, pause_boundaries) ==
    /\ grp_tasks[g].pc = "running"
    /\ pause_boundaries \in PauseBoundaries(count, Len(Groups[g].lines) - 1)
    /\ LET split == split_int16_pcm_for_lines(GroupSamples(g, count), group_weights(g),
                                              pause_boundaries)
       IN group_results' =
             Append(group_results,
                    [groupIndex |-> Groups[g].groupIndex, lines |-> Groups[g].lines,
                     lineChunks |-> split.chunks,
                     splitMode |-> IF split.pause THEN "pause" ELSE "duration"])
    /\ grp_tasks' = [grp_tasks EXCEPT ![g].pc = "done"]
    /\ UNCHANGED <<grp_input, grp_output>>

\* run_group's attempt raises (the upstream call fails or the audio has an
\* odd byte length): one more attempt if retry_once allows it
GroupAttemptFails(g) ==
    /\ grp_tasks[g].pc = "running"
    /\ grp_tasks' = [grp_tasks EXCEPT ![g] =
                        IF @.attempt >= max_attempts
                        THEN [@ EXCEPT !.pc = "failed"]
                        ELSE [@ EXCEPT !.attempt = @ + 1]]
    /\ UNCHANGED <<grp_input, group_results, grp_output>>

\* every future is complete: the request fails if a group failed, else the
\* lines are assembled
GroupsAssemble ==
    /\ grp_output.status = "running"
    /\ \A g \in GroupIds : grp_tasks[g].pc \in {"done", "failed"}
    /\ grp_output' =
          IF \E g \in GroupIds : grp_tasks[g].pc = "failed"
          THEN [NoGroupOutput EXCEPT !.status = "error"]
          ELSE LET ordered_line_chunks == assemble(group_results, Len(grp_input.speakers))
               IN [status |-> "ok",
                   lineChunks |-> ordered_line_chunks,
                   audio |-> Concat([i \in 1..Len(ordered_line_chunks) |->
                                        ordered_line_chunks[i].pcmBytes]),
                   concurrencyUsed |-> EffectiveConcurrency]
    /\ UNCHANGED <<grp_input, grp_tasks, group_results>>

(***************************************************************************)
(* Job properties                                                          *)
(***************************************************************************)
JobEdges ==
    {<<"queued", "running">>,
     <<"running", "completed">>, <<"running", "failed">>, <<"running", "cancelled">>,
     <<"running", "cancelling">>, <<"cancelling", "cancelled">>}

\* C10: under any interleaving of the worker with cancel requests, every
\* change of the job's status is an edge of the graph queued -> running ->
\* {completed, failed, cancelled}, running -> cancelling -> cancelled
C10_StatusChangesFollowGraph ==
    [][job'.status # job.status => <<job.status, job'.status>> \in JobEdges]_vars

\* C40: every created job eventually reaches one of the terminal statuses
\* completed, failed or cancelled and then keeps it forever, also when cancel
\* is requested before the worker starts running or after it has finished
C40_JobEndsInTerminalStatusForever ==
    /\ <>[](job.status \in {"completed", "failed", "cancelled"})
    /\ [][job.status \in {"completed", "failed", "cancelled"}
            => job'.status = job.status]_vars

\* the stages whose "[stage:start]" line has been logged
StartedStages == {LogStage(k) : k \in {j \in 1..worker.logged : IsStageStart(j)}}
StageNumber(stage_name) == CHOOSE n \in 1..Len(STAGE_ORDER) : STAGE_ORDER[n] = stage_name
ContractViolated == job.error.kind = "stage_contract_violation"

\* C20: once a required key was found missing before a stage ran or after it
\* returned, no later stage runs and the job is in status failed with the
\* error naming the stage, the point of the check and the missing keys
C20_ViolationEndsJobFailed ==
    ContractViolated
    => /\ job.status = "failed"
       /\ worker.pc = "exited"
       /\ job.error.missing # {}
       /\ job.error.missing =
             {key \in (IF job.error.when = "before" THEN STAGE_INPUT_KEYS[job.error.stage]
                       ELSE STAGE_OUTPUT_KEYS[job.error.stage]) : key \notin worker.ctx}
       /\ \A stage_name \in StartedStages :
             StageNumber(stage_name) <= StageNumber(job.error.stage)

\* C21: once the worker has observed cancelRequested while running the
\* pipeline, it has stopped running stages, no stage of the timeline is left
\* running, the stage that was open when the flag was observed is closed
\* with status failed, and the job's status is cancelled
C21_ObservedCancelEndsCancelled ==
    worker.exit = "cancelled"
    => /\ worker.pc = "exited"
       /\ \A i \in 1..Len(worker.stage_timeline) :
             worker.stage_timeline[i].status # "running"
       /\ IsStageStart(worker.logged)
          => worker.stage_timeline[Len(worker.stage_timeline)] =
                [stage |-> stage_map[LogStage(worker.logged)], status |-> "failed"]
       /\ job.status = "cancelled"

\* C22: a completed job has an empty synthesis-failures list, and once
\* stage6_tts has left a non-empty list under the hard_fail policy the job
\* is failed with the reason tts_segment_failures:<count>
C22_FailuresEndJobFailed ==
    /\ job.status = "completed" => worker.failures = 0
    /\ worker.failures > 0 /\ segment_failure_policy = "hard_fail"
       => /\ job.status = "failed"
          /\ job.error = [OtherError("tts_segment_failures") EXCEPT
                             !.count = worker.failures]

(***************************************************************************)
(* Quota properties, stated on the trace of the last quota call            *)
(***************************************************************************)
MonthIds == {month_doc_id(d) : d \in StartDay..MaxDay}
DayIds == {day_doc_id(d) : d \in StartDay..MaxDay}
SameCounters(docs_a, docs_b, ids) ==
    \A id \in ids : GetDoc(docs_a, id) = GetDoc(docs_b, id)
CurrentEvent == GetEvent(usage_events, quota_trace.request_id)

\* C6: a Reserve that finds the event of its request id with status
\* reserved or committed returns that event and leaves the monthly and
\* daily counters and the event as they were
C6_SecondReserveIsIdempotent ==
    (quota_trace.op = "reserve"
        /\ quota_trace.event_before.status \in {"reserved", "committed"})
    => /\ quota_trace.ok
       /\ quota_trace.alreadyReserved
       /\ quota_trace.event_returned = quota_trace.event_before
       /\ CurrentEvent = quota_trace.event_before
       /\ usage_monthly = quota_trace.monthly_before
       /\ usage_daily = quota_trace.daily_before

C6_Witness ==
    /\ quota_trace.op = "reserve"
    /\ quota_trace.alreadyReserved
    /\ quota_trace.event_before.status = "committed"
    /\ quota_trace.event_returned.vfCost > 0

\* C7 as stated: a Revert that directly follows a Reserve of the same
\* request id leaves every counter at its value before that Reserve and the
\* event with status reverted
C7_RevertRestoresPreReserve ==
    (quota_trace.op = "finalize" /\ ~quota_trace.success /\ quota_trace.after_reserve)
    => /\ SameCounters(usage_monthly, quota_trace.monthly_base, MonthIds)
       /\ SameCounters(usage_daily, quota_trace.daily_base, DayIds)
       /\ CurrentEvent.status = "reverted"

\* C7 amended: a Revert that directly follows the Reserve that created the
\* reservation of the same request id leaves every counter at its value
\* before that Reserve and the event with status reverted
C7_RevertRestoresPreFreshReserve ==
    (quota_trace.op = "finalize" /\ ~quota_trace.success
        /\ quota_trace.after_fresh_reserve)
    => /\ SameCounters(usage_monthly, quota_trace.monthly_base, MonthIds)
       /\ SameCounters(usage_daily, quota_trace.daily_base, DayIds)
       /\ CurrentEvent.status = "reverted"

C7_Witness ==
    /\ quota_trace.op = "finalize"
    /\ ~quota_trace.success
    /\ quota_trace.after_fresh_reserve
    /\ quota_trace.event_before.vfCost > 0
    /\ \E id \in MonthIds : GetDoc(quota_trace.monthly_base, id).vfUsed > 0

\* C8: no monthly document holds more vfUsed than monthlyVfLimit and no
\* daily document more generations than dailyGenerationLimit, whatever the
\* order in which the handlers reserve
C8_CountersWithinLimits ==
    /\ \A id \in DOMAIN usage_monthly : usage_monthly[id].vfUsed <= MonthlyVfLimit
    /\ \A id \in DOMAIN usage_daily :
          usage_daily[id].generationCount <= DailyGenerationLimit

C8_Witness ==
    /\ quota_trace.op = "reserve"
    /\ ~quota_trace.ok
    /\ \E h \in Handlers : handlers[h].pc = "calling"
    /\ GetDoc(usage_daily, day_doc_id(today)).generationCount = DailyGenerationLimit

\* the documents after a revert hold exactly the event's cost less than
\* before, in the documents the event names, and nothing else differs
CostTakenOffOnce(docs_after, docs_before, id, event) ==
    /\ DOMAIN docs_after = DOMAIN docs_before
    /\ id \in DOMAIN docs_before
    /\ \A x \in DOMAIN docs_before :
          docs_before[x] = IF x = id
                           THEN add_usage(docs_after[x], event.engine, event.chars,
                                          event.vfCost)
                           ELSE docs_after[x]

\* C9 as stated: when /tts/synthesize fails after its reservation succeeded,
\* the usage event ends reverted and the event's cost is off the counters
C9_FailureRevertsEvent ==
    (quota_trace.op = "finalize" /\ ~quota_trace.success)
    => /\ CurrentEvent.status = "reverted"
       /\ quota_trace.event_before.status = "reserved" =>
             /\ CostTakenOffOnce(usage_monthly, quota_trace.monthly_before,
                                 quota_trace.event_before.monthDocId,
                                 quota_trace.event_before)
             /\ CostTakenOffOnce(usage_daily, quota_trace.daily_before,
                                 quota_trace.event_before.dayDocId,
                                 quota_trace.event_before)

\* C9 amended: when /tts/synthesize fails after its reservation succeeded, an
\* event found reserved ends reverted with its cost taken off its documents
\* once, an event found reverted stays reverted with the counters unchanged,
\* and an event found committed stays committed with the counters unchanged
C9_FailureRevertsUncommittedEvent ==
    (quota_trace.op = "finalize" /\ ~quota_trace.success)
    => LET before == quota_trace.event_before
       IN /\ before.status \in {"reserved", "reverted", "committed"}
          /\ before.status = "reserved" =>
                /\ CurrentEvent = [before EXCEPT !.status = "reverted"]
                /\ CostTakenOffOnce(usage_monthly, quota_trace.monthly_before,
                                    before.monthDocId, before)
                /\ CostTakenOffOnce(usage_daily, quota_trace.daily_before,
                                    before.dayDocId, before)
          /\ before.status # "reserved" =>
                /\ CurrentEvent = before
                /\ usage_monthly = quota_trace.monthly_before
                /\ usage_daily = quota_trace.daily_before

C9_Witness ==
    /\ quota_trace.op = "finalize"
    /\ ~quota_trace.success
    /\ quota_trace.event_before.status = "reserved"
    /\ CurrentEvent.status = "reverted"
    /\ \E h \in Handlers : handlers[h].pc = "calling"

\* the committed events that name the monthly document id
CommittedIn(id) ==
    {r \in DOMAIN usage_events : /\ usage_events[r].status = "committed"
                                 /\ usage_events[r].monthDocId = id}
RECURSIVE CommittedCost(_)
CommittedCost(request_ids) ==
    IF request_ids = {} THEN 0
    ELSE LET r == CHOOSE x \in request_ids : TRUE
         IN usage_events[r].vfCost + CommittedCost(request_ids \ {r})

\* C39: under any interleaving of Reserve, Commit and Revert calls for one
\* (uid, requestId), every committed usage event has its vfCost and its
\* generation in the usage counters: a call never turns a reverted event into
\* a committed one, nor a committed event into a reverted one
C39_CommittedEventsAreCounted ==
    /\ \A r \in DOMAIN usage_events :
          LET id == usage_events[r].monthDocId
          IN usage_events[r].status = "committed" =>
                /\ GetDoc(usage_monthly, id).vfUsed >= CommittedCost(CommittedIn(id))
                /\ GetDoc(usage_monthly, id).generationCount >= Cardinality(CommittedIn(id))
    /\ quota_trace.op \in {"reserve", "finalize"} =>
          /\ quota_trace.event_before.status = "reverted" =>
                CurrentEvent.status # "committed"
          /\ quota_trace.event_before.status = "committed" =>
                CurrentEvent.status = "committed"

\* the uid the usage documents of the model belong to: _reserve_usage uses
\* the uid only to name the documents it reads and writes, so the model's
\* user stands for any uid, also the one the tests take for an admin
AdminUids == {"local_admin_unlimited"}
QuotaUid == "local_admin_unlimited"

\* C25: a reservation for a uid on the admin allowlist succeeds also when it
\* takes the counters over the daily or the monthly limit, and its usage
\* event then records the limit bypass
C25_AdminReservationBypassesLimits ==
    (quota_trace.op = "reserve" /\ QuotaUid \in AdminUids)
    => /\ quota_trace.ok
       /\ ~C8_CountersWithinLimits
          => "limitBypass" \in DOMAIN quota_trace.event_returned

(***************************************************************************)
(* Guardian properties, stated on the trace of the last guardian call      *)
(***************************************************************************)
\* C11: in enforce mode with maintenance mode off, a non-exempt request is
\* rejected with hard_concurrency_limit exactly when inFlightTotal is at
\* least the hard limit at its admission check
C11_HardLimitRejectsExactlyAtLimit ==
    (ops_trace.op = "admission" /\ ops_config.mode = "enforce"
        /\ ~ops_trace.maintenance /\ ~ops_trace.exempt)
    => (ops_trace.reason = "hard_concurrency_limit"
            <=> ops_trace.in_flight >= VF_AI_OPS_CONCURRENCY_HARD_LIMIT)

C11_Witness ==
    /\ ops_trace.op = "admission"
    /\ ops_config.mode = "enforce"
    /\ ~ops_trace.maintenance
    /\ ~ops_trace.exempt
    /\ ops_trace.in_flight = VF_AI_OPS_CONCURRENCY_HARD_LIMIT
    /\ ops_trace.reason = "hard_concurrency_limit"

\* the caller presents the configured admin token and is on the allowlist
PresentsTokenAndAllowlisted(caller) ==
    /\ ops_config.approval_token # ""
    /\ caller.adminToken = ops_config.approval_token
    /\ caller.uid \in ops_config.approver_uids

PendingFor(action, payload, uid) ==
    [action |-> action, payload |-> payload, status |-> "pending", requestedBy |-> uid]

\* C12: a major action requested by a caller who does not both present the
\* valid admin token and stand on the allowlist executes nothing and only
\* creates or returns a pending approval; whatever call executes a major
\* action does so for an admin who passed the authorization
C12_MajorActionNeedsTokenAndAllowlist ==
    /\ (ops_trace.op = "action" /\ ops_trace.action \in AI_OPS_MAJOR_ACTIONS
            /\ ~PresentsTokenAndAllowlisted(ops_trace.caller))
       => /\ ops_state = ops_trace.state_before
          /\ executed = {}
          /\ \/ /\ approvals = ops_trace.approvals_before
                /\ \E i \in 1..Len(approvals) :
                      /\ approvals[i].status = "pending"
                      /\ approvals[i].action = ops_trace.action
                      /\ approvals[i].payload = ops_trace.payload
             \/ approvals = Append(ops_trace.approvals_before,
                                   PendingFor(ops_trace.action, ops_trace.payload,
                                              ops_trace.caller.uid))
    /\ \A e \in executed :
          e.action \in AI_OPS_MAJOR_ACTIONS => e.initiator = "admin"

C12_Witness ==
    /\ ops_trace.op = "action"
    /\ ops_trace.action = "set_maintenance_mode"
    /\ ops_trace.caller.uid \in ops_config.approver_uids
    /\ ops_config.approval_token # ""
    /\ ops_trace.caller.adminToken # ops_config.approval_token
    /\ Len(approvals) = Len(ops_trace.approvals_before) + 1
    /\ ~ops_state.maintenanceMode

\* the paths the admission-exempt set is said to hold: health, version and
\* the guardian endpoints
SaidExempt(path) ==
    \/ path \in {<<"health">>, <<"system", "version">>}
    \/ Len(path) >= 3 /\ path[1] = "ops" /\ path[2] = "guardian"

\* C27: the admission check rejects no request for health, version or a
\* guardian endpoint, whatever maintenanceMode, mode, inFlightTotal and
\* temporarySheddingUntilMs are
C27_ExemptPathNeverRejected ==
    (ops_trace.op = "admission" /\ SaidExempt(ops_trace.path)) => ops_trace.reason = ""

\* an exempt request is admitted under maintenance, at the hard limit of an
\* enforcing deployment and while shedding is on
C27_Witness ==
    /\ ops_trace.op = "admission"
    /\ ops_trace.path = <<"health">>
    /\ ops_trace.maintenance
    /\ ops_config.mode = "enforce"
    /\ ops_trace.in_flight >= VF_AI_OPS_CONCURRENCY_HARD_LIMIT
    /\ ops_trace.state_before.temporarySheddingUntilMs > ops_now
    /\ ops_trace.reason = ""

\* C28: in a mode other than enforce and with maintenance mode off, the
\* admission check rejects no request, whatever inFlightTotal and
\* temporarySheddingUntilMs are
C28_OnlyEnforceAppliesLimits ==
    (ops_trace.op = "admission" /\ ops_config.mode # "enforce" /\ ~ops_trace.maintenance)
    => ops_trace.reason = ""

\* a request that is not exempt is admitted above the hard limit while
\* shedding is on
C28_Witness ==
    /\ ops_trace.op = "admission"
    /\ ops_config.mode = "manual"
    /\ ~ops_trace.maintenance
    /\ ~ops_trace.exempt
    /\ ops_trace.in_flight >= VF_AI_OPS_CONCURRENCY_HARD_LIMIT
    /\ ops_trace.state_before.temporarySheddingUntilMs > ops_now
    /\ ops_trace.reason = ""

\* C23: however many approvals are created, the guardian never retains
\* more approval records than VF_AI_OPS_MAX_PENDING_APPROVALS
C23_RetainedApprovalsWithinMaximum ==
    Len(approvals) <= VF_AI_OPS_MAX_PENDING_APPROVALS

\* C24: every auto-execution of a scan was requested with autoFixMinor under
\* an enabled feature flag, and two auto-executions of the same action and
\* payload are at least one cooldown apart, whatever scans run side by side
C24_AutoFixOncePerCooldown ==
    /\ \A i \in 1..Len(autofix_log) :
          autofix_log[i].autoFixMinor /\ ops_config.autofix_minor
    /\ \A i, j \in 1..Len(autofix_log) :
          /\ i < j
          /\ autofix_log[i].action = autofix_log[j].action
          /\ autofix_log[i].payload = autofix_log[j].payload
          => autofix_log[j].at_ms - autofix_log[i].at_ms >= VF_AI_OPS_AUTOFIX_COOLDOWN_MS

(***************************************************************************)
(* Studio pair group properties                                            *)
(***************************************************************************)
\* the chunks of a chunk list, reordered by ascending lineIndex
SortByLineIndex(chunks) ==
    [i \in 1..Len(chunks) |->
        CHOOSE c \in SeqToSet(chunks) :
            Cardinality({d \in SeqToSet(chunks) : d.lineIndex < c.lineIndex}) = i - 1]

PcmOf(chunks) == Concat([i \in 1..Len(chunks) |-> chunks[i].pcmBytes])

\* C13: in every grouped synthesis result the per-line chunks, concatenated
\* in lineIndex order, are exactly the audio payload, and every chunk has
\* samples unless its silence-fallback flag is set
C13_ChunksConcatenateToAudio ==
    grp_output.status = "ok"
    => /\ PcmOf(SortByLineIndex(grp_output.lineChunks)) = grp_output.audio
       /\ \A i \in 1..Len(grp_output.lineChunks) :
             \/ Len(grp_output.lineChunks[i].pcmBytes) > 0
             \/ grp_output.lineChunks[i].silenceFallback

C13_Witness ==
    /\ grp_output.status = "ok"
    /\ Len(group_results) = 2
    /\ \E i, j \in 1..Len(grp_output.lineChunks) :
          /\ grp_output.lineChunks[i].silenceFallback
          /\ ~grp_output.lineChunks[j].silenceFallback

\* the result of running the groups one after the other, in group order,
\* each returning the audio it returned in this run
SequentialResults ==
    SortByGroupIndex(group_results)

\* C14: whatever the order in which the groups complete, the chunk list
\* follows the line map in ascending lineIndex order and the chunks and the
\* audio are those of running the groups in sequence
C14_OutputIndependentOfCompletionOrder ==
    grp_output.status = "ok"
    => /\ Len(grp_output.lineChunks) = Len(grp_input.speakers)
       /\ \A k \in 1..Len(grp_output.lineChunks) :
             grp_output.lineChunks[k].lineIndex = LineIndexOf(k)
       /\ \A k \in 1..(Len(grp_output.lineChunks) - 1) :
             grp_output.lineChunks[k].lineIndex < grp_output.lineChunks[k + 1].lineIndex
       /\ grp_output.lineChunks = assemble(SequentialResults, Len(grp_input.speakers))
       /\ grp_output.audio = PcmOf(assemble(SequentialResults, Len(grp_input.speakers)))

C14_Witness ==
    /\ grp_output.status = "ok"
    /\ Len(group_results) = 2
    /\ group_results[1].groupIndex > group_results[2].groupIndex
    /\ \A i \in 1..Len(grp_output.lineChunks) : ~grp_output.lineChunks[i].silenceFallback

\* C15 as stated: never more group calls run at once than
\* min(requestedConcurrency, 7, groupCount, keyPoolSize), with the requested
\* value as the request carries it, and concurrencyUsed reports that value
C15_RunningWithinRequestedMin ==
    LET requested == IF grp_input.requested.given THEN grp_input.requested.value
                     ELSE GEMINI_STUDIO_PAIR_GROUP_MAX_CONCURRENCY
        cap == Min(Min(requested, GEMINI_STUDIO_PAIR_GROUP_MAX_CONCURRENCY),
                   Min(Len(Groups), grp_input.key_pool_size))
    IN /\ Cardinality(Running) <= cap
       /\ grp_output.status = "ok" => grp_output.concurrencyUsed = cap

\* C15 amended: never more group calls run at once than
\* min(max(1, requestedConcurrency), 7, groupCount, keyPoolSize), 7 standing
\* for an absent requestedConcurrency, and concurrencyUsed reports that value
C15_RunningWithinFlooredMin ==
    LET requested == IF grp_input.requested.given
                     THEN Max(1, grp_input.requested.value)
                     ELSE GEMINI_STUDIO_PAIR_GROUP_MAX_CONCURRENCY
        cap == Min(Min(requested, GEMINI_STUDIO_PAIR_GROUP_MAX_CONCURRENCY),
                   Min(Len(Groups), grp_input.key_pool_size))
    IN /\ Cardinality(Running) <= cap
       /\ grp_output.status = "ok" => grp_output.concurrencyUsed = cap

C15_Witness ==
    /\ Cardinality(Running) = 2
    /\ grp_input.key_pool_size = 2
    /\ grp_input.requested.given
    /\ grp_input.requested.value > GEMINI_STUDIO_PAIR_GROUP_MAX_CONCURRENCY

(***************************************************************************)
(* Properties of the signals, the state dump and stray releases            *)
(***************************************************************************)
\* the lane and key maps with the strike counters left out
WithoutStrikes(ls, ks) ==
    [lane_states |-> [id \in DOMAIN ls |-> [ls[id] EXCEPT !.rate_limited_total = 0]],
     key_states |-> [key \in DOMAIN ks |->
                        [ks[key] EXCEPT !.rate_limited_total = 0,
                                       !.auth_failures_total = 0]]]

IsSignal(op) == op \in {"mark_rate_limited", "mark_auth_failed"}

\* C16 as stated: a signal applied a second time in a row leaves the key and
\* lane state as the first application left it
C16_SecondSignalChangesNothing ==
    (IsSignal(sig_trace.op) /\ sig_trace.repeated)
    => /\ lane_states = sig_trace.lane_states
       /\ key_states = sig_trace.key_states

\* C16 amended: a signal applied a second time at the same clock reading
\* changes nothing but the strike counters, which count it: block times,
\* disable times, windows, usage and in-flight counters and the set of
\* records stay as the first application left them
C16_SecondSignalOnlyCounts ==
    (IsSignal(sig_trace.op) /\ sig_trace.repeated)
    => /\ WithoutStrikes(lane_states, key_states)
            = WithoutStrikes(sig_trace.lane_states, sig_trace.key_states)
       /\ key_states[sig_trace.key].rate_limited_total
            + key_states[sig_trace.key].auth_failures_total
            = sig_trace.key_states[sig_trace.key].rate_limited_total
              + sig_trace.key_states[sig_trace.key].auth_failures_total + 1

C16_Witness ==
    /\ sig_trace.op = "mark_auth_failed"
    /\ sig_trace.repeated
    /\ key_states[sig_trace.key].auth_failures_total = 2
    /\ key_states[sig_trace.key].auth_disabled_until_ms = now + auth_disable_ms

\* C17: snapshot leaves the lane records, the key records and the
\* round-robin cursor as it found them
C17_SnapshotChangesNothing ==
    sig_trace.op = "snapshot"
    => /\ lane_states = sig_trace.lane_states
       /\ key_states = sig_trace.key_states
       /\ next_key_index = sig_trace.next_key_index

\* C18: releasing a lease the allocator never issued changes no lane or key
\* record
C18_StrayReleaseChangesNothing ==
    sig_trace.op = "release_unissued"
    => /\ lane_states = sig_trace.lane_states
       /\ key_states = sig_trace.key_states

(***************************************************************************)
(* Terminal error of the TTS synthesis loop                                *)
(***************************************************************************)
\* the loop of thread w ended by raising its terminal error
Raised(w) == loop_kind = "tts" /\ loops[w].pc = "done" /\ loops[w].error_code # ""

\* C19: a synthesis call that ends exhausted after attempts that all failed
\* with an auth-classified error reports ALL_KEYS_AUTH_FAILED
C19_AllAuthReportsAuthFailed ==
    \A w \in Callers :
        (/\ Raised(w)
         /\ loops[w].model_attempts # << >>
         /\ SeqToSet(loops[w].model_attempts) = {"auth"})
        => loops[w].error_code = ERROR_CODE_ALL_KEYS_AUTH_FAILED

\* C26: no state shows a speaker's affinity to a key evicted for an auth
\* failure while the key is still enabled, or a key disabled for an auth
\* failure while a speaker is still bound to it
C26_EvictionAtomicWithDisable ==
    LET disabled(key) == key_state(key_states, key)[key].auth_disabled_until_ms > now
    IN /\ \A w \in Callers :
             (loop_kind = "tts" /\ loops[w].pc = "releasing" /\ loops[w].evicted)
             => disabled(leases[loops[w].lease].key)
       /\ \A s \in AffinitySpeakers :
             speaker_key_affinity[s] # "" => ~disabled(speaker_key_affinity[s])

(***************************************************************************)
(* acquire_for_models called with a pool of its own: the order of the keys *)
(* and the rotation of the cursor                                          *)
(***************************************************************************)
RotationPool == <<"k1", "k2", "k3">>
\* "k9" is a key outside the pool
RotationPreferred == {"", "k2", "k9"}
RotationBlocked == {{}, {"k2"}}
\* the candidates acquire_for_task passes on: the route less the blocked models
RotationBlockedModels == {{}, {"m1"}}
RotationCandidates == {SeqMinus(Routes["tts"], blocked_models) :
                          blocked_models \in RotationBlockedModels}
RotationTokens == {1, MaxReqTokens}
\* calls in one run: once round the pool and one more
RotationCalls == Len(RotationPool) + 1

\* the (key index, model) pairs whose lane _lane_ready_wait_ms finds ready
\* for the call at this moment
ReadyLanes(call) ==
    {pair \in (0..(Len(call.key_pool) - 1)) \X SeqToSet(call.model_candidates) :
        LET key == call.key_pool[pair[1] + 1]
            ks1 == key_state(key_states, key)
            ls1 == lane_state(lane_states, key, pair[2], now)
            lane == reset_lane_if_window_rolled(ls1[<<key, pair[2]>>], now)
        IN lane_ready_wait_ms(pair[2], ks1[key], lane, call.requested_tokens, now) = 0}

\* what the pass of the call found and did; run lists the leases of the
\* passes made one after the other with every lane ready and no preferred key
PassTrace(c, call) ==
    LET ready == ReadyLanes(call)
        \* the lanes the pass looks at, as it finds them
        inspected == {pair \in (0..(Len(call.key_pool) - 1)) \X SeqToSet(call.model_candidates) :
                         call.key_pool[pair[1] + 1] \notin call.blocked_keys}
        found(pair) ==
            LET key == call.key_pool[pair[1] + 1]
                ls1 == lane_state(lane_states, key, pair[2], now)
            IN reset_lane_if_window_rolled(ls1[<<key, pair[2]>>], now)
        \* the lane is neither disabled nor blocked, and the request would
        \* exceed the requests or the tokens its model allows in the window
        at_budget(pair) ==
            LET key == call.key_pool[pair[1] + 1]
                lane == found(pair)
                limit == ModelLimit(pair[2])
            IN /\ key_state(key_states, key)[key].auth_disabled_until_ms <= now
               /\ lane.temp_block_until_ms <= now
               /\ \/ lane.requests + lane.in_flight_requests + 1 > limit.rpm
                  \/ lane.tokens + lane.in_flight_tokens + call.requested_tokens > limit.tpm
        window_left(pair) == Max(1, found(pair).window_started_ms + window_ms - now)
        issued == Len(leases') > Len(leases)
        lease == leases'[Len(leases')]
        counted == /\ issued
                   /\ call.preferred_key = ""
                   /\ ready = (0..(Len(call.key_pool) - 1))
                                 \X SeqToSet(call.model_candidates)
    IN [valid |-> TRUE, cursor |-> next_key_index, key_pool |-> call.key_pool,
        preferred_key |-> call.preferred_key, blocked_keys |-> call.blocked_keys,
        candidates |-> call.model_candidates,
        order |-> ordered_key_indexes(call.key_pool, call.preferred_key,
                                      call.blocked_keys, next_key_index),
        ready |-> ready, issued |-> issued,
        key_index |-> IF issued THEN lease.key_index ELSE 0,
        model_id |-> IF issued THEN lease.model_id ELSE "",
        run |-> IF counted
                THEN Append(pass_trace.run,
                            [key_index |-> lease.key_index,
                             blocked |-> call.blocked_keys # {}])
                ELSE << >>,
        at_ms |-> now,
        auth_released_at_ms |-> IF issued THEN penalties.auth[lease.key] ELSE 0,
        rate_limited_until_ms |->
            IF issued THEN penalties.rate[<<lease.key, lease.model_id>>] ELSE 0,
        returned |-> callers'[c].pc = "idle",
        all_at_budget |-> inspected # {} /\ \A pair \in inspected : at_budget(pair),
        smallest_wait_ms |->
            IF inspected = {} THEN 0
            ELSE CHOOSE w \in {window_left(pair) : pair \in inspected} :
                    \A pair \in inspected : w <= window_left(pair)]

\* acquire_for_models(model_candidates, key_pool, requested_tokens,
\* blocked_keys, preferred_key) is entered and its first pass runs
RotateAcquire(c, inputs) ==
    /\ callers[c].pc = "idle"
    /\ calls < RotationCalls
    /\ calls' = calls + 1
    /\ \E input \in inputs :
          LET call == [IdleCaller EXCEPT
                          !.key_pool = RotationPool,
                          !.model_candidates = input.model_candidates,
                          !.requested_tokens = Max(1, input.requested_tokens),
                          !.blocked_keys = input.blocked_keys,
                          !.preferred_key = input.preferred_key,
                          !.started_at_ms = now]
          IN /\ acquire_iteration(c, call)
             /\ pass_trace' = PassTrace(c, call)
    /\ UNCHANGED <<now, penalties>>

\* the call wakes from its sleep and runs its next pass
RotateWake(c) ==
    /\ AcquireWake(c)
    /\ pass_trace' = PassTrace(c, callers[c])
    /\ UNCHANGED penalties

\* whether a request of one token finds the lane ready
LaneUsable(ls, ks, key, model_id) ==
    LET ks1 == key_state(ks, key)
        ls1 == lane_state(ls, key, model_id, now)
        lane == reset_lane_if_window_rolled(ls1[<<key, model_id>>], now)
    IN lane_ready_wait_ms(model_id, ks1[key], lane, 1, now) = 0

\* the end of the window the lane is in at this moment
CurrentWindowEnd(key, model_id) ==
    LET lane == lane_states[<<key, model_id>>]
    IN IF now - lane.window_started_ms >= window_ms THEN now + window_ms
       ELSE lane.window_started_ms + window_ms

\* the holder of lease number i releases it after an upstream error of the kind
PenaltyRelease(i, error_kind) ==
    /\ i \in 1..Len(leases)
    /\ leases[i].releases = 0
    /\ calls < RotationCalls
    /\ calls' = calls + 1
    /\ LET lease == leases[i]
           r == release(lane_states, key_states, lease, 0, error_kind, now)
       IN /\ lane_states' = r.lane_states
          /\ key_states' = r.key_states
          /\ penalties' =
                [penalties EXCEPT
                    !.auth[lease.key] = IF error_kind = "auth" THEN now ELSE @,
                    !.rate[<<lease.key, lease.model_id>>] =
                        IF error_kind = "rate_limit"
                        THEN CurrentWindowEnd(lease.key, lease.model_id) ELSE @,
                    !.others_usable =
                        IF error_kind = "rate_limit"
                        THEN /\ @
                             /\ \A model_id \in Models \ {lease.model_id} :
                                   LaneUsable(lane_states, key_states, lease.key, model_id)
                                   = LaneUsable(r.lane_states, r.key_states,
                                                lease.key, model_id)
                        ELSE @]
    /\ leases' = [leases EXCEPT ![i].releases = @ + 1]
    /\ UNCHANGED <<now, next_key_index, callers, acquire_result, pass_trace>>

(***************************************************************************)
(* Key order properties                                                    *)
(***************************************************************************)
\* the last pass took the keys in the order: the preferred key when it is in
\* the pool and not blocked, then the other keys round robin from the cursor
KeysOrderedFromCursor ==
    LET t == pass_trace
        n == Len(t.key_pool)
        preferred_first == /\ t.preferred_key \in SeqToSet(t.key_pool)
                           /\ t.preferred_key \notin t.blocked_keys
        rest == IF preferred_first THEN Tail(t.order) ELSE t.order
    IN /\ Len(t.order) = n
       /\ {t.order[i] : i \in 1..n} = 0..(n - 1)
       /\ preferred_first => t.key_pool[t.order[1] + 1] = t.preferred_key
       /\ \A i, j \in 1..Len(rest) :
             i < j => (rest[i] + n - t.cursor) % n < (rest[j] + n - t.cursor) % n

\* the lease of the last pass is on the first lane found ready, going through
\* the models in route order and, per model, through the keys in that order
LeaseOnFirstReadyInOrder ==
    LET t == pass_trace
        usable(p, m) == /\ t.key_pool[t.order[p] + 1] \notin t.blocked_keys
                        /\ <<t.order[p], m>> \in t.ready
    IN t.issued
       => \E p \in 1..Len(t.order), mi \in 1..Len(t.candidates) :
             /\ t.order[p] = t.key_index
             /\ t.candidates[mi] = t.model_id
             /\ usable(p, t.model_id)
             /\ \A q \in 1..(p - 1) : ~usable(q, t.model_id)
             /\ \A mj \in 1..(mi - 1), q \in 1..Len(t.order) : ~usable(q, t.candidates[mj])

\* after a lease is issued the cursor is one past the chosen key
CursorOnePastChosen ==
    pass_trace.issued
    => next_key_index = (pass_trace.key_index + 1) % Len(pass_trace.key_pool)

\* every n leases in a row of the run, among the entries told by eligible,
\* are on n different keys
EachKeyOnce(eligible(_)) ==
    LET run == pass_trace.run
        n == Len(RotationPool)
    IN \A first \in 1..(Len(run) - n + 1) :
          (\A k \in first..(first + n - 1) : eligible(run[k]))
          => {run[k].key_index : k \in first..(first + n - 1)} = 0..(n - 1)

\* C30 as stated: keys are taken preferred first, then round robin from the
\* cursor; a lease leaves the cursor one past its key; n acquisitions in a row
\* with every lane ready and no preferred key lease each of the n keys once
C30_RoundRobinLeasesEachKeyOnce ==
    pass_trace.valid
    => /\ KeysOrderedFromCursor
       /\ LeaseOnFirstReadyInOrder
       /\ CursorOnePastChosen
       /\ EachKeyOnce(LAMBDA entry : TRUE)

\* C30 amended: the same, the n acquisitions in a row being also without
\* blocked keys
C30_RoundRobinUnblockedLeasesEachKeyOnce ==
    pass_trace.valid
    => /\ KeysOrderedFromCursor
       /\ LeaseOnFirstReadyInOrder
       /\ CursorOnePastChosen
       /\ EachKeyOnce(LAMBDA entry : ~entry.blocked)

\* C34: an acquisition that times out with every candidate lane at its RPM or
\* TPM budget returns no lease, timedOut, and as retryAfterMs the smallest
\* lane wait of its last pass, which is above 0
C34_TimeoutReportsSmallestWait ==
    (pass_trace.returned /\ ~pass_trace.issued /\ pass_trace.all_at_budget)
    => /\ acquire_result.valid
       /\ ~acquire_result.has_lease
       /\ acquire_result.timed_out
       /\ acquire_result.retry_after_ms = pass_trace.smallest_wait_ms
       /\ acquire_result.retry_after_ms > 0

\* a call gave up after it slept, with every lane at its budget
C34_Witness ==
    /\ pass_trace.returned
    /\ ~pass_trace.issued
    /\ pass_trace.all_at_budget
    /\ acquire_result.waited_ms > 0

\* C32: after a lease is released with error kind auth, no lease on its key,
\* for any model, is issued until authDisableMs has passed since the release
C32_NoLeaseOnKeyWhileAuthDisabled ==
    (pass_trace.issued /\ pass_trace.auth_released_at_ms # 0)
    => pass_trace.at_ms >= pass_trace.auth_released_at_ms + AuthDisableMsArg

\* a lease on a key once its disable time is over
C32_Witness ==
    /\ pass_trace.issued
    /\ pass_trace.auth_released_at_ms # 0
    /\ \E i \in 1..Len(leases) :
          /\ leases[i].releases = 1
          /\ leases[i].key = leases[Len(leases)].key
          /\ i < Len(leases)

\* C33: after a lease is released with error kind rate_limit, no lease on its
\* lane is issued before the end of the window the lane was in, and the
\* other lanes of the key are as usable as before the release
C33_NoLeaseOnLaneBeforeWindowEnd ==
    /\ (pass_trace.issued /\ pass_trace.rate_limited_until_ms # 0)
       => pass_trace.at_ms >= pass_trace.rate_limited_until_ms
    /\ penalties.others_usable

\* a lease on another lane of the key while the rate-limited lane is blocked
C33_Witness ==
    /\ pass_trace.issued
    /\ \E model_id \in Models \ {pass_trace.model_id} :
          penalties.rate[<<pass_trace.key_pool[pass_trace.key_index + 1], model_id>>]
             > pass_trace.at_ms

\* C31: a lease for a model later in the route is issued only if, at that
\* moment, no earlier non-blocked model of the route has a ready lane on a
\* non-blocked key
C31_LaterModelOnlyWhenEarlierNotReady ==
    LET t == pass_trace
    IN t.issued
       => \A mi \in 1..Len(t.candidates) :
             t.candidates[mi] = t.model_id
             => \A mj \in 1..(mi - 1), index \in 0..(Len(t.key_pool) - 1) :
                   t.key_pool[index + 1] \notin t.blocked_keys
                   => <<index, t.candidates[mj]>> \notin t.ready

\* the second model of the unblocked route is leased, the first having no ready lane
C31_Witness ==
    /\ pass_trace.issued
    /\ pass_trace.candidates = Routes["tts"]
    /\ pass_trace.model_id = Routes["tts"][2]
    /\ \E index \in 0..(Len(pass_trace.key_pool) - 1) :
          <<index, Routes["tts"][2]>> \in pass_trace.ready

\* n acquisitions in a row with every lane ready, no preferred and no blocked key
C30_Witness ==
    /\ pass_trace.issued
    /\ Len(pass_trace.run) >= Len(RotationPool)
    /\ \A k \in 1..Len(pass_trace.run) : ~pass_trace.run[k].blocked

(***************************************************************************)
(* Stage 6 of the dubbing pipeline: grouped Gemini synthesis with the      *)
(* segmented fallback (src/video_dubbing/pipeline/stage6_tts.py)           *)
(***************************************************************************)
MaxSegments == 3

\* a segment's text after strip(): empty, Latin script, or holding Devanagari
SegmentTexts == {"", "latin", "devanagari"}
SegmentSpeakers == {"SPEAKER_00", "SPEAKER_01"}
TargetLanguages == {"", "hindi", "en"}
TtsRoutes == {"auto", "gem_only", "kokoro_only"}
TtsEngines == {"GEM", "KOKORO"}

LANGUAGE_CODE_ALIASES == [token \in {"hindi", "english"} |->
                             IF token = "hindi" THEN "hi" ELSE "en"]

normalize_language_code(value, default) ==
    IF value = "" THEN default
    ELSE IF value \in DOMAIN LANGUAGE_CODE_ALIASES THEN LANGUAGE_CODE_ALIASES[value]
    ELSE value

_has_devanagari(text) == text = "devanagari"

\* variant that looks at the route only
_select_engine_by_route_only(segment, target_language, tts_route) ==
    IF tts_route = "kokoro_only" THEN "KOKORO" ELSE "GEM"

_select_engine(segment, target_language, tts_route) ==
    IF tts_route = "gem_only" THEN "GEM"
    ELSE IF tts_route = "kokoro_only" THEN "KOKORO"
    ELSE IF \/ normalize_language_code(target_language, "en") = "hi"
            \/ _has_devanagari(segment.text)
         THEN "KOKORO"
         ELSE "GEM"

_engine_order(primary, tts_route) ==
    IF tts_route \in {"gem_only", "kokoro_only"} THEN <<primary>>
    ELSE <<primary, IF primary = "GEM" THEN "KOKORO" ELSE "GEM">>

\* serial_to_segment of the plan, << >> when _build_grouped_plan returns None
_build_grouped_plan(segments) ==
    LET RECURSIVE lines(_)
        lines(i) == IF i > Len(segments) THEN << >>
                    ELSE IF segments[i].text = "" THEN lines(i + 1)
                    ELSE <<i>> \o lines(i + 1)
        serial_to_segment == lines(1)
        speakers == {segments[serial_to_segment[k]].speaker :
                        k \in 1..Len(serial_to_segment)}
    IN IF Len(serial_to_segment) < 2 \/ Cardinality(speakers) < 2
       THEN << >>
       ELSE serial_to_segment

IdleStage6 ==
    [pc |-> "idle", segments |-> << >>, target_language |-> "", tts_route |-> "auto",
     grouped |-> "", index |-> 1, generated |-> << >>, tts_requests |-> << >>,
     failures |-> << >>, tts_failed |-> {}, error |-> ""]

\* run, up to the end of _try_grouped_gemini; log is the pipeline's logger,
\* which raises once the job's cancellation has been requested
Stage6Grouped(grouped_ok, log_raises) ==
    /\ stage6.pc = "start"
    /\ LET target_lang == normalize_language_code(stage6.target_language, "hi")
           plan == _build_grouped_plan(stage6.segments)
       IN IF stage6.tts_route = "kokoro_only" \/ plan = << >>
          THEN stage6' = [stage6 EXCEPT !.pc = "segmented", !.grouped = "skipped"]
          ELSE IF log_raises
          THEN stage6' = [stage6 EXCEPT !.pc = "raised", !.error = "cancelled",
                                        !.grouped = IF grouped_ok THEN "completed"
                                                    ELSE "failed"]
          ELSE IF grouped_ok
          THEN stage6' = [stage6 EXCEPT
                             !.pc = "finishing", !.grouped = "completed",
                             !.generated = [k \in 1..Len(plan) |->
                                               [index |-> plan[k], engine |-> "GEM"]],
                             !.tts_requests = [k \in 1..Len(plan) |->
                                                  [index |-> plan[k], engine |-> "GEM",
                                                   ok |-> TRUE]]]
          ELSE stage6' = [stage6 EXCEPT !.pc = "segmented", !.grouped = "failed"]
    /\ UNCHANGED <<allocVars, loopVars, quotaVars, jobVars, opsVars, groupVars,
                   signalVars, scanVars, rotVars, winVars, reqVars, decVars>>

\* one pass of the loop over the segments; succeeds is the engines whose
\* /synthesize call would return audio
Stage6Segment(succeeds, log_raises) ==
    /\ stage6.pc = "segmented"
    /\ stage6.index <= Len(stage6.segments)
    /\ LET index == stage6.index
           segment == stage6.segments[index]
           target_lang == normalize_language_code(stage6.target_language, "hi")
           primary_engine == _select_engine(segment, target_lang, stage6.tts_route)
           engines == _engine_order(primary_engine, stage6.tts_route)
           tried == {k \in 1..Len(engines) :
                        \A j \in 1..(k - 1) : engines[j] \notin succeeds}
           failed == {engines[k] : k \in {j \in tried : engines[j] \notin succeeds}}
           ok == \E k \in tried : engines[k] \in succeeds
           selected_engine == IF ok
                              THEN engines[CHOOSE k \in tried : engines[k] \in succeeds]
                              ELSE primary_engine
       IN IF segment.text = ""
          THEN stage6' = [stage6 EXCEPT !.index = index + 1]
          ELSE IF failed # {} /\ log_raises
          THEN stage6' = [stage6 EXCEPT !.pc = "raised", !.error = "cancelled"]
          ELSE stage6' = [stage6 EXCEPT
                             !.index = index + 1,
                             !.generated = Append(@, [index |-> index,
                                                      engine |-> selected_engine]),
                             !.tts_requests = Append(@, [index |-> index,
                                                         engine |-> selected_engine,
                                                         ok |-> ok]),
                             !.failures = IF ok THEN @
                                          ELSE Append(@, [index |-> index,
                                                          engine |-> selected_engine]),
                             !.tts_failed = @ \cup {<<index, e>> : e \in failed}]
    /\ UNCHANGED <<allocVars, loopVars, quotaVars, jobVars, opsVars, groupVars,
                   signalVars, scanVars, rotVars, winVars, reqVars, decVars>>

\* the end of run: the context is filled, and failures raise
Stage6Finish ==
    /\ \/ stage6.pc = "finishing"
       \/ stage6.pc = "segmented" /\ stage6.index > Len(stage6.segments)
    /\ stage6' = IF stage6.failures # << >>
                 THEN [stage6 EXCEPT !.pc = "raised", !.error = "tts_segment_failures"]
                 ELSE [stage6 EXCEPT !.pc = "returned"]
    /\ UNCHANGED <<allocVars, loopVars, quotaVars, jobVars, opsVars, groupVars,
                   signalVars, scanVars, rotVars, winVars, reqVars, decVars>>

(***************************************************************************)
(* Stage 6 properties                                                      *)
(***************************************************************************)
\* the segments the segmented mode synthesises: those with text, in order
SpokenIndexes ==
    LET RECURSIVE spoken(_)
        spoken(i) == IF i > Len(stage6.segments) THEN << >>
                     ELSE IF stage6.segments[i].text = "" THEN spoken(i + 1)
                     ELSE <<i>> \o spoken(i + 1)
    IN spoken(1)

FellBackAndReturned == stage6.grouped = "failed" /\ stage6.pc = "returned"

\* C29 as stated: after a failed grouped call the stage has one TTS segment per
\* input segment, every one with engine GEM
C29_FallbackOneGemSegmentPerInput ==
    FellBackAndReturned
    => /\ Len(stage6.generated) = Len(stage6.segments)
       /\ \A k \in 1..Len(stage6.generated) : stage6.generated[k].engine = "GEM"

\* C29 amended: after a failed grouped call the stage runs the segmented mode;
\* when it returns it has one TTS segment per input segment with text, in input
\* order, whose engine is GEM under gem_only and, under auto, the first that
\* synthesised it of GEM then KOKORO, or of KOKORO then GEM for a Hindi target
\* or a text with Devanagari
C29_FallbackSegmentPerSpokenInput ==
    /\ stage6.grouped = "failed" => stage6.pc \in {"segmented", "returned", "raised"}
    /\ FellBackAndReturned
       => /\ Len(stage6.generated) = Len(SpokenIndexes)
          /\ \A k \in 1..Len(stage6.generated) :
                LET i == SpokenIndexes[k]
                    hindi == \/ stage6.target_language \in {"", "hindi"}
                             \/ stage6.segments[i].text = "devanagari"
                    first == IF stage6.tts_route = "auto" /\ hindi THEN "KOKORO" ELSE "GEM"
                    second == IF first = "GEM" THEN "KOKORO" ELSE "GEM"
                IN /\ stage6.generated[k].index = i
                   /\ stage6.tts_route = "gem_only" => stage6.generated[k].engine = "GEM"
                   /\ stage6.tts_route = "auto"
                      => stage6.generated[k].engine =
                            IF <<i, first>> \in stage6.tts_failed THEN second ELSE first

\* a fallback that skipped a segment without text and used KOKORO for another
C29_Witness ==
    /\ FellBackAndReturned
    /\ Len(stage6.generated) < Len(stage6.segments)
    /\ \E k \in 1..Len(stage6.generated) : stage6.generated[k].engine = "KOKORO"
    /\ \E k \in 1..Len(stage6.generated) : stage6.generated[k].engine = "GEM"

(***************************************************************************)
(* Word windows of a line map (gemini-runtime/app.py).  A grouped          *)
(* synthesis splits its normalized line map into windows and synthesizes   *)
(* each window as a grouped request of its own.  A line is its lineIndex   *)
(* and the number of words count_words finds in its text; the normalized   *)
(* line map holds no line whose text is empty.                             *)
(***************************************************************************)
MaxWindowLines == 3
MAX_WORDS_PER_REQUEST == 5000
LineWordCounts == {1, 900, 2500, MAX_WORDS_PER_REQUEST, MAX_WORDS_PER_REQUEST + 1}

\* the normalized line maps of k lines, lineIndex ascending
LineMaps(k) ==
    {[i \in 1..k |-> [lineIndex |-> LineIndexOf(i), words |-> words[i]]] :
        words \in [1..k -> LineWordCounts]}

NoWindows == [status |-> "idle", line_map |-> << >>, windows |-> << >>]

\* the body of the for loop, over the lines left
RECURSIVE window_loop(_, _, _)
window_loop(lines, safe_max_words, acc) ==
    IF lines = << >> THEN acc
    ELSE LET line == Head(lines)
             line_words == Max(1, line.words)
             empty == [windows |-> << >>, current |-> << >>, current_words |-> 0]
             started ==
                 IF acc.current # << >> /\ acc.current_words + line_words > safe_max_words
                 THEN [empty EXCEPT !.windows = Append(acc.windows, acc.current)]
                 ELSE acc
             added == [started EXCEPT !.current = Append(@, line),
                                      !.current_words = @ + line_words]
             closed ==
                 IF added.current_words >= safe_max_words
                 THEN [empty EXCEPT !.windows = Append(added.windows, added.current)]
                 ELSE added
         IN window_loop(Tail(lines), safe_max_words, closed)

_build_line_map_word_windows(normalized_line_map, max_words) ==
    LET safe_max_words == Max(1, max_words)
        acc == window_loop(normalized_line_map, safe_max_words,
                           [windows |-> << >>, current |-> << >>, current_words |-> 0])
    IN IF acc.current # << >> THEN Append(acc.windows, acc.current) ELSE acc.windows

\* _synthesize_studio_pair_group_windows, up to its first window: the line
\* map is split, and a request without windows is refused
BuildWindows(normalized_line_map) ==
    /\ line_windows.status = "idle"
    /\ LET windows == _build_line_map_word_windows(normalized_line_map, MAX_WORDS_PER_REQUEST)
       IN line_windows' = [status |-> IF windows = << >> THEN "refused" ELSE "split",
                           line_map |-> normalized_line_map,
                           windows |-> windows]

\* the words of a window, as the loop counts them
RECURSIVE WindowWords(_)
WindowWords(window) ==
    IF window = << >> THEN 0 ELSE Max(1, Head(window).words) + WindowWords(Tail(window))

\* C35: every window produced from a line map consists of whole lines in
\* their original order, every line of the map appears in exactly one window,
\* and each window's total word count is at most MAX_WORDS_PER_REQUEST
C35_WindowsPartitionLinesUnderWordCap ==
    line_windows.status = "split" =>
        /\ Concat(line_windows.windows) = line_windows.line_map
        /\ \A w \in 1..Len(line_windows.windows) :
              /\ line_windows.windows[w] # << >>
              /\ WindowWords(line_windows.windows[w]) <= MAX_WORDS_PER_REQUEST

(***************************************************************************)
(* Specifications: one per subsystem, the others at rest                   *)
(***************************************************************************)
LoopsIdle ==
    /\ loop_kind = "tts"
    /\ loops = [w \in Callers |-> NoLoop]
    /\ speaker_key_affinity = [s \in AffinitySpeakers |-> ""]

QuotaInit ==
    /\ today = StartDay
    /\ usage_monthly = << >>
    /\ usage_daily = << >>
    /\ usage_events = << >>
    /\ handlers = [h \in Handlers |-> IdleHandler]
    /\ quota_trace = NoTrace

JobInit ==
    /\ job = NewJob
    /\ worker = NewWorker
    /\ stage6 = IdleStage6
    /\ line_windows = NoWindows

\* AI_OPS_STATE as the module defines it, under one deployment's settings
OpsStateInit ==
    /\ ops_now = OpsStartMs
    /\ ops_state = [maintenanceMode |-> FALSE, temporarySheddingUntilMs |-> 0,
                    inFlightTotal |-> 0,
                    lastAutoFixAtMs |-> [a \in AI_OPS_MINOR_ACTIONS |-> 0]]
    /\ approvals = << >>
    /\ approval_order = << >>
    /\ executed = {}
    /\ ops_trace = NoOpsTrace
    /\ scans = [t \in ScanThreads |-> IdleScan]
    /\ autofix_log = << >>
    /\ http_requests = [r \in HttpRequests |-> NewRequest]
    /\ decisions = NoDecisions

\* no grouped synthesis has been asked for
GroupsIdle ==
    /\ grp_input = [speakers |-> <<"A", "B">>, pattern |-> "even", key_pool_size |-> 1,
                    requested |-> [given |-> FALSE, value |-> 0], retry_once |-> FALSE]
    /\ grp_tasks = << >>
    /\ group_results = << >>
    /\ grp_output = [NoGroupOutput EXCEPT !.status = "idle"]

OpsIdle ==
    /\ ops_config = [mode |-> "observe", approver_uids |-> {}, approval_token |-> "",
                     autofix_minor |-> FALSE]
    /\ OpsStateInit

AllocInit == AllocatorInit /\ LoopsIdle /\ QuotaInit /\ JobInit /\ OpsIdle /\ GroupsIdle

AllocNext ==
    \/ /\ \/ \E c \in Callers : AcquireStart(c)
          \/ \E c \in Callers : AcquireWake(c)
          \/ \E i \in 1..MaxCalls : Release(i)
          \/ \E i \in 1..MaxCalls : ReleaseAgain(i)
          \/ AllocTick
       /\ UNCHANGED <<loopVars, quotaVars, jobVars, opsVars, groupVars, signalVars, scanVars, ttsVars, rotVars, winVars, reqVars, decVars>>

SpecAlloc == AllocInit /\ [][AllocNext]_vars

LoopsInit ==
    /\ AllocatorInit
    /\ loop_kind \in LoopKinds
    /\ loops = [w \in Callers |-> NoLoop]
    \* the speakers are unbound, or bound by an earlier request
    /\ speaker_key_affinity \in [AffinitySpeakers -> {"", "k2"}]
    /\ QuotaInit
    /\ JobInit
    /\ OpsIdle
    /\ GroupsIdle

LoopsNext ==
    \/ /\ \/ \E w \in Callers : LoopBegin(w)
          \/ \E w \in Callers : LoopAcquire(w)
          \/ \E w \in Callers : LoopWake(w)
          \/ \E w \in Callers : TtsCall(w)
          \/ \E w \in Callers : TtsBind(w)
          \/ \E w \in Callers : TtsAuthRelease(w)
          \/ \E w \in Callers : TtsRaise(w)
          \/ \E w \in Callers : OcrCall(w)
          \/ \E w \in Callers : OcrParse(w)
          \/ AllocTick /\ UNCHANGED loopVars
       /\ UNCHANGED <<quotaVars, jobVars, opsVars, groupVars, signalVars, scanVars, ttsVars, rotVars, winVars, reqVars, decVars>>

SpecLoops == LoopsInit /\ [][LoopsNext]_vars

QuotaSpecInit == AllocatorInit /\ LoopsIdle /\ QuotaInit /\ JobInit /\ OpsIdle /\ GroupsIdle

QuotaNext ==
    \/ /\ \/ \E h \in Handlers : TtsReserve(h)
          \/ \E h \in Handlers : TtsRuntimeFails(h)
          \/ \E h \in Handlers : TtsRuntimeSucceeds(h)
          \/ NextDay
       /\ UNCHANGED <<allocVars, loopVars, jobVars, opsVars, groupVars, signalVars, scanVars, ttsVars, rotVars, winVars, reqVars, decVars>>

SpecQuota == QuotaSpecInit /\ [][QuotaNext]_vars

JobSpecInit == AllocatorInit /\ LoopsIdle /\ QuotaInit /\ JobInit /\ OpsIdle /\ GroupsIdle

JobNext ==
    \/ /\ \/ WorkerStart
          \/ Preflight
          \/ PipelineLog
          \/ StageLogs
          \/ StageRuns
          \/ PipelineFails
          \/ WorkerComplete
          \/ Cancel
       /\ UNCHANGED <<allocVars, loopVars, quotaVars, opsVars, groupVars, signalVars, scanVars, ttsVars, rotVars, winVars, reqVars, decVars>>

SpecJob == JobSpecInit /\ [][JobNext]_vars

\* the steps of the worker thread, which create_dubbing_job_v2 starts with the
\* job and which runs until _run_dubbing_job_v2 returns
JobWorkerNext ==
    /\ \/ WorkerStart
       \/ Preflight
       \/ PipelineLog
       \/ StageLogs
       \/ StageRuns
       \/ PipelineFails
       \/ WorkerComplete
    /\ UNCHANGED <<allocVars, loopVars, quotaVars, opsVars, groupVars, signalVars, scanVars,
                   ttsVars, rotVars, winVars, reqVars, decVars>>

\* the jobs whose worker thread is scheduled until it returns; the cancel
\* requests come as the clients send them
SpecJobFair == JobSpecInit /\ [][JobNext]_vars /\ WF_vars(JobWorkerNext)

\* the deployments told apart by the admission check
AdmissionConfigs ==
    {c \in OpsConfigs : c.approver_uids = {} /\ c.approval_token = "" /\ ~c.autofix_minor}

AdmissionInit ==
    /\ AllocatorInit /\ LoopsIdle /\ QuotaInit /\ JobInit /\ GroupsIdle
    /\ ops_config \in AdmissionConfigs
    /\ OpsStateInit

AdmissionNext ==
    \/ /\ \/ \E path \in OpsPaths : RequestArrives(path)
          \/ RequestFinishes
          \/ \E action \in OpsStateActions :
                \E payload \in OpsPayloads(action) : OpsExecute(action, payload)
          \/ OpsTick
       /\ UNCHANGED <<allocVars, loopVars, quotaVars, jobVars, groupVars, signalVars, scanVars, ttsVars, rotVars, winVars, reqVars, decVars>>

SpecAdmission == AdmissionInit /\ [][AdmissionNext]_vars

\* the deployments told apart by the admin authorization
GuardianConfigs == {c \in OpsConfigs : c.mode = "observe" /\ ~c.autofix_minor}

OpsInit ==
    /\ AllocatorInit /\ LoopsIdle /\ QuotaInit /\ JobInit /\ GroupsIdle
    /\ ops_config \in GuardianConfigs
    /\ OpsStateInit

OpsNext ==
    \/ /\ \/ \E caller \in OpsCallers, action \in OpsActions :
                \E payload \in OpsPayloads(action) : GuardianAction(caller, action, payload)
          \/ \E caller \in OpsCallers, i \in 1..MaxApprovals, approved, ok \in BOOLEAN :
                ApprovalDecision(caller, i, approved, ok)
       /\ UNCHANGED <<allocVars, loopVars, quotaVars, jobVars, groupVars, signalVars, scanVars, ttsVars, rotVars, winVars, reqVars, decVars>>

SpecGuardian == OpsInit /\ [][OpsNext]_vars

\* the requests: a line map of 2..MaxLines lines, the first by speaker A
GroupInputs ==
    [speakers : {sp \in UNION {[1..n -> Speakers] : n \in 2..MaxLines} : sp[1] = "A"},
     pattern : WordPatterns, key_pool_size : KeyPoolSizes,
     requested : RequestedConcurrencies, retry_once : BOOLEAN]

GroupsInit ==
    /\ AllocatorInit /\ LoopsIdle /\ QuotaInit /\ JobInit /\ OpsIdle
    /\ grp_input \in GroupInputs
    /\ grp_tasks = [g \in 1..Len(build_studio_pair_groups(grp_input.speakers)) |->
                       [pc |-> "queued", attempt |-> 0]]
    /\ group_results = << >>
    /\ grp_output = NoGroupOutput

GroupsNext ==
    \/ /\ \/ \E g \in GroupIds : GroupStart(g)
          \/ \E g \in GroupIds, count \in 0..MaxSamples :
                \E pause_boundaries \in PauseBoundaries(count, Len(Groups[g].lines) - 1) :
                   GroupSucceeds(g, count, pause_boundaries)
          \/ \E g \in GroupIds : GroupAttemptFails(g)
          \/ GroupsAssemble
       /\ UNCHANGED <<allocVars, loopVars, quotaVars, jobVars, opsVars, signalVars, scanVars, ttsVars, rotVars, winVars, reqVars, decVars>>

SpecGroups == GroupsInit /\ [][GroupsNext]_vars

SignalsInit == AllocInit

SignalsNext ==
    \/ /\ \/ \E key \in Keys, model_id \in Models : MarkRateLimited(key, model_id)
          \/ \E key \in Keys : MarkAuthFailed(key)
          \/ \E key_pool \in SnapshotPools : Snapshot(key_pool)
          \/ \E lease \in UnissuedLeases, error_kind \in UnissuedKinds :
                ReleaseUnissued(lease, 0, error_kind)
          \/ /\ AllocTick
             /\ sig_trace' = NoSigTrace
       /\ UNCHANGED <<loopVars, quotaVars, jobVars, opsVars, groupVars, scanVars, ttsVars, rotVars, winVars, reqVars, decVars>>

SpecSignals == SignalsInit /\ [][SignalsNext]_vars

\* the deployments told apart by the scan: auto-fix enabled or not, with an
\* approver who can decide approvals
ScanConfigs ==
    {c \in OpsConfigs : /\ c.mode = "observe"
                        /\ c.approver_uids = {"admin"}
                        /\ c.approval_token = "good"}

ScanInit ==
    /\ AllocatorInit /\ LoopsIdle /\ QuotaInit /\ JobInit /\ GroupsIdle
    /\ ops_config \in ScanConfigs
    /\ OpsStateInit

ScanNext ==
    \/ /\ \/ \E t \in ScanThreads, offline \in OfflineCounts, autoFixMinor \in BOOLEAN :
                ScanStart(t, "user", offline, autoFixMinor)
          \/ \E t \in ScanThreads : ScanIssue(t)
          \/ \E t \in ScanThreads : ScanExecute(t)
          \/ \E t \in ScanThreads : ScanMark(t)
          \/ \E t \in ScanThreads : ScanReturn(t)
          \/ /\ \E i \in 1..MaxScanApprovals :
                   ApprovalDecision([uid |-> "admin", adminToken |-> "good"], i, FALSE, TRUE)
             /\ UNCHANGED scanVars
          \/ OpsTick /\ UNCHANGED scanVars
       /\ UNCHANGED <<allocVars, loopVars, quotaVars, jobVars, groupVars, signalVars, ttsVars, rotVars, winVars, reqVars, decVars>>

SpecScan == ScanInit /\ [][ScanNext]_vars

\* the contexts stage 6 is run on: 1..MaxSegments segments, the first by SPEAKER_00
Stage6Inputs ==
    {seg \in UNION {[1..n -> [text : SegmentTexts, speaker : SegmentSpeakers]] :
                       n \in 1..MaxSegments} : seg[1].speaker = "SPEAKER_00"}

Stage6Init ==
    /\ AllocatorInit /\ LoopsIdle /\ QuotaInit /\ OpsIdle /\ GroupsIdle
    /\ job = NewJob
    /\ worker = NewWorker
    /\ \E segments \in Stage6Inputs, target_language \in TargetLanguages,
          tts_route \in TtsRoutes :
          stage6 = [IdleStage6 EXCEPT !.pc = "start", !.segments = segments,
                                      !.target_language = target_language,
                                      !.tts_route = tts_route]
    /\ line_windows = NoWindows

Stage6Next ==
    \/ \E grouped_ok, log_raises \in BOOLEAN : Stage6Grouped(grouped_ok, log_raises)
    \/ \E succeeds \in SUBSET TtsEngines, log_raises \in BOOLEAN :
          Stage6Segment(succeeds, log_raises)
    \/ Stage6Finish

SpecStage6 == Stage6Init /\ [][Stage6Next]_vars

RotationInputs ==
    [model_candidates : RotationCandidates, requested_tokens : RotationTokens,
     blocked_keys : RotationBlocked, preferred_key : RotationPreferred]

RotationInit == AllocInit

RotationNext ==
    \* the passes run one at a time under the allocator's lock: one thread calls
    \/ /\ \/ RotateAcquire(1, RotationInputs)
          \/ RotateWake(1)
          \/ AllocTick /\ UNCHANGED rotVars
       /\ UNCHANGED <<loopVars, quotaVars, jobVars, opsVars, groupVars, signalVars,
                      scanVars, ttsVars, winVars, reqVars, decVars>>

SpecRotation == RotationInit /\ [][RotationNext]_vars

\* the calls made between releases with errors: requests of one token that
\* prefer the first key or none
PenaltyInputs ==
    [model_candidates : RotationCandidates, requested_tokens : {1},
     blocked_keys : {{}}, preferred_key : {"", RotationPool[1]}]

PenaltyInit == AllocInit

PenaltyNext ==
    \* RotationCalls calls cannot take every lane of the pool away, so that no
    \* call of this specification sleeps
    \/ /\ \/ RotateAcquire(1, PenaltyInputs)
          \/ \E i \in 1..RotationCalls, error_kind \in {"auth", "rate_limit"} :
                PenaltyRelease(i, error_kind)
          \/ AllocTick /\ UNCHANGED rotVars
       /\ UNCHANGED <<loopVars, quotaVars, jobVars, opsVars, groupVars, signalVars,
                      scanVars, ttsVars, winVars, reqVars, decVars>>

SpecPenalty == PenaltyInit /\ [][PenaltyNext]_vars

WindowsInit == AllocInit

WindowsNext ==
    \/ /\ \E k \in 1..MaxWindowLines : \E normalized_line_map \in LineMaps(k) :
             BuildWindows(normalized_line_map)
       /\ UNCHANGED <<allocVars, loopVars, quotaVars, jobVars, opsVars, groupVars,
                      signalVars, scanVars, ttsVars, rotVars, reqVars, decVars>>

InFlightInit == AdmissionInit

InFlightNext ==
    \/ /\ \/ \E r \in HttpRequests, path \in OpsPaths : MiddlewareEnter(r, path)
          \/ \E r \in HttpRequests, raised \in BOOLEAN : MiddlewareExit(r, raised)
          \/ /\ \E action \in OpsStateActions :
                   \E payload \in OpsPayloads(action) : OpsExecute(action, payload)
             /\ UNCHANGED reqVars
       /\ UNCHANGED <<allocVars, loopVars, quotaVars, jobVars, groupVars, signalVars,
                      scanVars, ttsVars, rotVars, winVars, decVars>>

SpecInFlight == InFlightInit /\ [][InFlightNext]_vars

\* a deployment with an approver, whose token the admin presents
DecisionsInit ==
    /\ AllocatorInit /\ LoopsIdle /\ QuotaInit /\ JobInit /\ GroupsIdle
    /\ ops_config = [mode |-> "observe", approver_uids |-> {"admin"},
                     approval_token |-> "good", autofix_minor |-> FALSE]
    /\ OpsStateInit

DecisionsNext ==
    \/ /\ \/ /\ \E action \in AI_OPS_MAJOR_ACTIONS : \E payload \in OpsPayloads(action) :
                      GuardianAction([uid |-> "user", adminToken |-> ""], action, payload)
                /\ UNCHANGED decVars
          \/ \E t \in DecisionThreads, caller \in OpsCallers, i \in 1..MaxApprovals,
                approved \in BOOLEAN : DecisionCheck(t, caller, i, approved)
          \/ \E t \in DecisionThreads : DecisionReject(t)
          \/ \E t \in DecisionThreads, ok \in BOOLEAN : DecisionExecute(t, ok)
          \/ \E t \in DecisionThreads : DecisionStore(t)
       /\ UNCHANGED <<allocVars, loopVars, quotaVars, jobVars, groupVars, signalVars,
                      scanVars, ttsVars, rotVars, winVars, reqVars>>

SpecDecisions == DecisionsInit /\ [][DecisionsNext]_vars

SpecWindows == WindowsInit /\ [][WindowsNext]_vars

====
